---- MODULE Spec2Model ----
(***************************************************************************)
(* A model of Bloom's self_analysis application: the question catalog,     *)
(* the eligibility resolver and progress snapshot (utils.py), the answer   *)
(* validation / scoring pipeline (serializers.py, agents.py, views.py),    *)
(* the aggregate of trait scores (models.py) and the administrator's       *)
(* operations on answers (admin.py).                                       *)
(*                                                                         *)
(* Numbers that are floats in the program (trait scores, averages) are     *)
(* integers in hundredths here: 80.0 is 8000, 26.67 is 2667.  The inputs   *)
(* of the model are multiples of one half, for which the program's float   *)
(* sums are exact.  Strings are records (see Str below).                   *)
(***************************************************************************)
EXTENDS Integers, Sequences, FiniteSets, TLC

\* ------------------------------------------------------------------ bounds
NumUsers == 2
\* questions of the small catalogs (resolver, aggregate, pipeline)
NumQuestions == 3
\* orders an administrator gives a question in the small catalogs: 0..MaxOrder
MaxOrder == 1
\* questions of the flat catalog used for the progress percentages
ProgressQuestions == 50
\* questions of the catalog on which answers are deleted
DeleteQuestions == 2
\* questions of the catalog of the submission pipeline
PipelineQuestions == 2
\* questions of the catalog of choice questions
ChoiceQuestions == 2
\* questions of the catalog of free-text questions
TextQuestions == 1
\* questions of the catalog on which the aggregate is read
ProfileQuestions == 2
\* questions of the catalog two users answer again and again
UpsertQuestions == 2
\* the requests of one user that are served at the same time
RaceRequests == 2
\* the questions of the specification of required questions
RequiredQuestions == 3

\* ------------------------------------------------------------------ values
\* Python's None for a question reference (Question.parent is null); ids start at 1
None == 0

\* hundredths per unit: round(x, 2) keeps two decimals
Scale == 100

Users == 1..NumUsers

VARIABLES
    questions,      \* Question table: id -> row
    options,        \* Option table: option id -> id of its question
    answers,        \* Answer table: user -> rows of that user, oldest created_at first
    self_analysis,  \* SelfAnalysis table: user -> row (exists = FALSE: no row)
    response,       \* what the last operation returned
    inflight        \* requests served step by step: request -> position and locals

vars == <<questions, options, answers, self_analysis, response, inflight>>

\* ------------------------------------------------------------------ strings
\* A string is lead spaces, then a body of `body` characters that starts and
\* ends with a non-space (tag names the text the body is a prefix of), then
\* trail spaces.  A string without a body has tag 0 and keeps its spaces in lead.
Str(tag, lead, body, trail) == [tag |-> tag, lead |-> lead, body |-> body, trail |-> trail]

EmptyStr == Str(0, 0, 0, 0)

StrLen(s) == s.lead + s.body + s.trail

\* str.strip()
Strip(s) == IF s.body = 0 THEN EmptyStr ELSE Str(s.tag, 0, s.body, 0)

Min(a, b) == IF a <= b THEN a ELSE b
Max(a, b) == IF a >= b THEN a ELSE b

\* s[:n]
Truncate(s, n) ==
    IF s.lead >= n THEN (IF n = 0 THEN EmptyStr ELSE Str(0, n, 0, 0))
    ELSE IF s.lead + s.body >= n THEN Str(s.tag, s.lead, n - s.lead, 0)
    ELSE Str(s.tag, s.lead, s.body, Min(s.trail, n - s.lead - s.body))

\* Python truthiness of a string
Truthy(s) == StrLen(s) > 0

\* ------------------------------------------------------------------ maps
\* a JSON object of trait scores: a function from a set of keys
EmptyMap == [k \in {} |-> 0]

\* a value of a trait map: a number (in hundredths), something float() refuses
\* (num = FALSE), or something float() turns into nan, such as the string "nan"
Num(n) == [num |-> TRUE, nan |-> FALSE, v |-> n]
NonNumeric == [num |-> FALSE, nan |-> FALSE, v |-> 0]
NaN == [num |-> TRUE, nan |-> TRUE, v |-> 0]

\* ------------------------------------------------------------------ catalog
QIds == DOMAIN questions

Question(type, parent, category, required, is_active, order, asks_when) ==
    [type |-> type, parent |-> parent, category |-> category, required |-> required,
     is_active |-> is_active, order |-> order, asks_when |-> asks_when]

\* Meta.ordering / order_by("order", "id")
OrderLess(q1, q2) ==
    \/ questions[q1].order < questions[q2].order
    \/ questions[q1].order = questions[q2].order /\ q1 < q2

\* Question.objects.filter(is_active=True)
IsActive(q) == questions[q].is_active

\* utils._all_active_questions: the active questions as the list the database
\* returns for order_by("order", "id")
AllActiveQuestions == SortSeq(SelectSeq([q \in QIds |-> q], IsActive), OrderLess)

\* utils._answered_ids_for_user, on the Answer rows of the user
AnsweredIdsForUser(rows) == {rows[i].question : i \in 1..Len(rows)}

\* parent_of = {q.id: q.parent_id for q in qs}; parent_of.get(x)
ParentOfGet(qs, x) ==
    IF \E i \in 1..Len(qs) : qs[i] = x THEN questions[x].parent ELSE None

\* the while loop of utils._ancestors_answered, from `current`
RECURSIVE AncestorsWalk(_, _, _)
AncestorsWalk(current, qs, answered_ids) ==
    IF current = None THEN TRUE
    ELSE IF current \notin answered_ids THEN FALSE
    ELSE AncestorsWalk(ParentOfGet(qs, current), qs, answered_ids)

\* utils._ancestors_answered
AncestorsAnswered(qid, qs, answered_ids) ==
    AncestorsWalk(ParentOfGet(qs, qid), qs, answered_ids)

\* a scan that gives up at the first gated question instead of passing over it
RECURSIVE NextScanStopsAtGated(_, _, _)
NextScanStopsAtGated(i, qs, answered_ids) ==
    IF i > Len(qs) THEN None
    ELSE LET q == qs[i] IN
         IF questions[q].parent # None /\ ~AncestorsAnswered(q, qs, answered_ids)
         THEN None
         ELSE IF q \notin answered_ids THEN q
         ELSE NextScanStopsAtGated(i + 1, qs, answered_ids)

\* the for loop of utils.next_question_for_user, from index i
RECURSIVE NextScan(_, _, _)
NextScan(i, qs, answered_ids) ==
    IF i > Len(qs) THEN None
    ELSE LET q == qs[i] IN
         IF questions[q].parent # None /\ ~AncestorsAnswered(q, qs, answered_ids)
         THEN NextScan(i + 1, qs, answered_ids)
         ELSE IF q \notin answered_ids THEN q
         ELSE NextScan(i + 1, qs, answered_ids)

\* a resolver that does not look at what the user has answered
FirstActiveQuestion(rows) == NextScan(1, AllActiveQuestions, {})

\* utils.next_question_for_user, on the Answer rows of the user
NextQuestionForUser(rows) == NextScan(1, AllActiveQuestions, AnsweredIdsForUser(rows))

\* ------------------------------------------------------------------ floats
\* Python's float is IEEE-754 binary64: a significand of 53 bits, every
\* operation rounded to nearest, ties to even.  A positive float is
\* [mant, exp]: mant is the significand, 53 bits, most significant (a 1) first,
\* read as an integer; the value is mant * 2^exp.
MantBits == 53

\* bits of one limb of the significand in a multiplication (3 limbs hold 54 bits)
LimbBits == 18

RECURSIVE Pow2(_)
Pow2(n) == IF n = 0 THEN 1 ELSE 2 * Pow2(n - 1)

\* 2^n mod t
RECURSIVE Pow2Mod(_, _)
Pow2Mod(n, t) ==
    IF n = 0 THEN 1 % t
    ELSE LET h == Pow2Mod(n \div 2, t)
         IN IF n % 2 = 0 THEN (h * h) % t ELSE (2 * h * h) % t

\* a bit string of at most 30 bits, most significant first, as an integer
RECURSIVE BitsToInt(_)
BitsToInt(x) == IF Len(x) = 0 THEN 0 ELSE 2 * BitsToInt(SubSeq(x, 1, Len(x) - 1)) + x[Len(x)]

\* the low n bits of the integer v, most significant first
IntToBits(v, n) == [i \in 1..n |-> (v \div Pow2(n - i)) % 2]

\* x + 1 for a bit string that is not all ones: a bit flips when all bits below it are 1
Increment(x) ==
    [i \in 1..Len(x) |-> IF \A j \in (i + 1)..Len(x) : x[j] = 1 THEN 1 - x[i] ELSE x[i]]

\* without its leading zeros (x has a 1)
StripZeros(x) ==
    LET first == CHOOSE i \in 1..Len(x) : x[i] = 1 /\ \A j \in 1..(i - 1) : x[j] = 0
    IN SubSeq(x, first, Len(x))

\* round to nearest, ties to even: bits is the exact value (at least 53 bits, the
\* first a 1) with weight 2^exp on its last bit, sticky says that more follows
RoundNearestEven(bits, exp, sticky) ==
    LET n     == Len(bits)
        mant  == SubSeq(bits, 1, MantBits)
        guard == IF n > MantBits THEN bits[MantBits + 1] ELSE 0
        rest  == sticky \/ \E i \in (MantBits + 2)..n : bits[i] = 1
        e     == exp + (n - MantBits)
        up    == guard = 1 /\ (rest \/ mant[MantBits] = 1)
    IN IF ~up THEN [mant |-> mant, exp |-> e]
       ELSE IF \A i \in 1..MantBits : mant[i] = 1
            THEN [mant |-> [i \in 1..MantBits |-> IF i = 1 THEN 1 ELSE 0], exp |-> e + 1]
       ELSE [mant |-> Increment(mant), exp |-> e]

\* binary digits of num / t, n of them, the first with weight 1 (num < 2t):
\* the digit of weight 2^-(i-1) compares twice the remainder before it with t
DivBits(num, t, n) ==
    [i \in 1..n |->
        IF i = 1 THEN (IF num >= t THEN 1 ELSE 0)
        ELSE IF 2 * (((num % t) * Pow2Mod(i - 2, t)) % t) >= t THEN 1 ELSE 0]

\* what is left of num / t after n digits
DivRem(num, t, n) == ((num % t) * Pow2Mod(n - 1, t)) % t

\* number of doublings that bring num (> 0) to t or more
RECURSIVE LeadZeros(_, _)
LeadZeros(num, t) == IF num >= t THEN 0 ELSE 1 + LeadZeros(2 * num, t)

\* a / t as a float, for integers 0 < a <= t
FloatDiv(a, t) ==
    LET z    == LeadZeros(a, t)
        num  == a * Pow2(z)
        bits == DivBits(num, t, MantBits + 1)
    IN RoundNearestEven(bits, 0 - (z + MantBits), DivRem(num, t, MantBits + 1) # 0)

\* f * 100 as a float: the significand in three limbs, each times 100, carries up
FloatTimes100(f) ==
    LET m    == <<0>> \o f.mant
        base == Pow2(LimbBits)
        l1   == BitsToInt(SubSeq(m, 1, LimbBits))
        l2   == BitsToInt(SubSeq(m, LimbBits + 1, 2 * LimbBits))
        l3   == BitsToInt(SubSeq(m, 2 * LimbBits + 1, 3 * LimbBits))
        p3   == l3 * 100
        p2   == l2 * 100 + p3 \div base
        p1   == l1 * 100 + p2 \div base
        bits == IntToBits(p1 \div base, 7) \o IntToBits(p1 % base, LimbBits)
                \o IntToBits(p2 % base, LimbBits) \o IntToBits(p3 % base, LimbBits)
    IN RoundNearestEven(StripZeros(bits), f.exp, FALSE)

\* int(f): the float truncated to an integer (f below 2^30)
FloatToInt(f) ==
    IF f.exp >= 0 THEN BitsToInt(f.mant) * Pow2(f.exp)
    ELSE IF 0 - f.exp >= MantBits THEN 0
    ELSE BitsToInt(SubSeq(f.mant, 1, MantBits + f.exp))

\* int((answered / total) * 100) if total else 0
PercentFloat(answered, total) ==
    IF total = 0 THEN 0
    ELSE IF answered = 0 THEN 0
    ELSE FloatToInt(FloatTimes100(FloatDiv(answered, total)))

\* the percentages of every count the catalogs of the model allow, computed once
PercentTable ==
    [total \in 0..Max(NumQuestions, ProgressQuestions) |->
        [answered \in 0..total |-> PercentFloat(answered, total)]]

Percent(answered, total) == PercentTable[total][answered]

\* ------------------------------------------------------------------ progress
\* the category of a question with none: (c or "")
NullCategory == "null"
CategoryKey(c) == IF c = NullCategory THEN "" ELSE c

\* every question, active or not
EveryQuestionId == QIds

\* Question.objects.filter(is_active=True): the ids
ActiveIds == {q \in QIds : questions[q].is_active}

\* Answer.objects.filter(user=user, question__is_active=True): indexes of the rows
ActiveAnswerRows(rows) == {i \in 1..Len(rows) : questions[rows[i].question].is_active}

\* utils._overall_progress
OverallProgress(rows) ==
    LET total    == Cardinality(ActiveIds)
        answered == Cardinality(ActiveAnswerRows(rows))
    IN [answered |-> answered, total |-> total, percent |-> Percent(answered, total)]

\* utils._category_progress
CategoryProgress(rows) ==
    LET cats == {CategoryKey(questions[q].category) : q \in ActiveIds}
    IN [cat \in cats |->
          LET total == Cardinality({q \in ActiveIds : CategoryKey(questions[q].category) = cat})
              a     == Cardinality({i \in ActiveAnswerRows(rows) :
                          CategoryKey(questions[rows[i].question].category) = cat})
          IN [answered |-> a, total |-> total, percent |-> Percent(a, total)]]

\* utils.progress_snapshot
ProgressSnapshot(rows) ==
    LET overall == OverallProgress(rows)
    IN [answered |-> overall.answered, total |-> overall.total,
        percent |-> overall.percent, by_category |-> CategoryProgress(rows)]

\* ------------------------------------------------------------------ aggregate
\* n / d rounded to the nearest integer, ties to even: Python's round() on the
\* quotient (n and d integers, d > 0)
RoundHalfEvenDiv(n, d) ==
    LET q == n \div d
        r == n % d
    IN IF 2 * r < d THEN q
       ELSE IF 2 * r > d THEN q + 1
       ELSE IF q % 2 = 0 THEN q ELSE q + 1

\* the rows of a user as self.user.answers.all() iterates them:
\* Answer.Meta.ordering = ["-created_at"], the newest first
AnswersAll(rows) == [i \in 1..Len(rows) |-> rows[Len(rows) + 1 - i]]

\* float(v) does not raise
Floatable(v) == v.num

\* sums[k] after the loop over the maps, from index i
RECURSIVE SumFrom(_, _, _)
SumFrom(maps, k, i) ==
    IF i > Len(maps) THEN 0
    ELSE (IF k \in DOMAIN maps[i] /\ Floatable(maps[i][k]) THEN maps[i][k].v ELSE 0)
         + SumFrom(maps, k, i + 1)

\* a count of every answer, whether or not its map holds the key
CountOfEveryAnswer(maps, k) == Len(maps)

\* counts[k] after the loop over the maps
CountOf(maps, k) ==
    Cardinality({i \in 1..Len(maps) : k \in DOMAIN maps[i] /\ Floatable(maps[i][k])})

\* an aggregate that keeps every key seen, 0 for a key without a number
CombinedEveryKey(maps) ==
    [k \in UNION {DOMAIN maps[i] : i \in 1..Len(maps)} |->
        IF CountOf(maps, k) > 0
        THEN RoundHalfEvenDiv(SumFrom(maps, k, 1), CountOf(maps, k))
        ELSE 0]

\* {k: round(sums[k] / counts[k], 2) for k in sums.keys() if counts[k] > 0}
Combined(maps) ==
    LET keys == {k \in UNION {DOMAIN maps[i] : i \in 1..Len(maps)} : CountOf(maps, k) > 0}
    IN [k \in keys |-> RoundHalfEvenDiv(SumFrom(maps, k, 1), CountOf(maps, k))]

\* latest_quote after the loop over the rows, from index i
RECURSIVE QuoteLoop(_, _, _)
QuoteLoop(rows, i, latest_quote) ==
    IF i > Len(rows) THEN latest_quote
    ELSE QuoteLoop(rows, i + 1, IF Truthy(rows[i].quote) THEN rows[i].quote ELSE latest_quote)

SelfAnalysisRow(pos, neg, quote) ==
    [exists |-> TRUE, combined_positives |-> pos, combined_negatives |-> neg, quote |-> quote]

NoSelfAnalysis ==
    [exists |-> FALSE, combined_positives |-> EmptyMap, combined_negatives |-> EmptyMap,
     quote |-> EmptyStr]

\* SelfAnalysis.recalc_from_answers, on the rows in the order answers.all() gives them
RecalcFromAnswers(rows) ==
    SelfAnalysisRow(Combined([i \in 1..Len(rows) |-> rows[i].positive_values]),
                    Combined([i \in 1..Len(rows) |-> rows[i].negative_values]),
                    QuoteLoop(rows, 1, EmptyStr))

\* SelfAnalysis.objects.get_or_create(user=u)
GetOrCreate(sa) == IF sa.exists THEN sa ELSE SelfAnalysisRow(EmptyMap, EmptyMap, EmptyStr)

\* ------------------------------------------------------------------ answers
AnswerRow(q, payload, pos, neg, quote) ==
    [question |-> q, answer |-> payload, positive_values |-> pos, negative_values |-> neg,
     quote |-> quote]

HasAnswer(rows, q) == \E i \in 1..Len(rows) : rows[i].question = q

IndexOf(rows, q) == CHOOSE i \in 1..Len(rows) : rows[i].question = q

\* a save that always adds a row
AlwaysAppend(rows, row) == Append(rows, row)

\* Answer.objects.update_or_create(user, question, defaults): the row of (user,
\* question) keeps its created_at, a new row is the newest
UpdateOrCreate(rows, row) ==
    IF HasAnswer(rows, row.question)
    THEN [rows EXCEPT ![IndexOf(rows, row.question)] = row]
    ELSE Append(rows, row)

\* The database takes the JSON of a trait map: the column of a JSONField has
\* the check JSON_VALID, which refuses the NaN that json.dumps writes for nan
JsonValid(map) == \A k \in DOMAIN map : ~map[k].nan

\* the rows without those of the questions in qs
RECURSIVE Without(_, _)
Without(rows, qs) ==
    IF Len(rows) = 0 THEN << >>
    ELSE (IF Head(rows).question \in qs THEN << >> ELSE <<Head(rows)>>) \o Without(Tail(rows), qs)

\* ------------------------------------------------------------------ payloads
\* The text of an answer, as far as the checks read it: its length stripped,
\* its words, whether lower-cased it is one of the listed placeholders, whether
\* it holds a time reference, whether it holds "http://" or "https://".
Text(chars, words, placeholder, time, url) ==
    [chars |-> chars, words |-> words, placeholder |-> placeholder, time |-> time, url |-> url]

NoText == Text(0, 0, FALSE, FALSE, FALSE)

\* The "answer" of a request.  shape: "missing" (absent or null), "empty_str",
\* "empty_obj", "str", "text_obj" {text: str}, "int", "option_obj" {option: id},
\* "list", "options_obj" {options: [ids]}, "other".  ids: the option ids named.
Payload(shape, text, ids) == [shape |-> shape, text |-> text, ids |-> ids]

MissingPayload == Payload("missing", NoText, {})

\* TraitScoresField.to_internal_value on an object of scores (without the
\* overlay of the Trait catalog, which only refuses more)
TraitScoresField(data) ==
    IF \E k \in DOMAIN data :
          \/ ~Floatable(data[k])
          \/ ~data[k].nan /\ (data[k].v < 0 \/ data[k].v > 100 * Scale)
    THEN [ok |-> FALSE, value |-> EmptyMap]
    ELSE [ok |-> TRUE, value |-> data]

\* a validation that does not ask whose option an id is
SerializerValidateAnyOption(q, payload) ==
    LET qtype    == questions[q].type
        accept   == [ok |-> TRUE, answer |-> payload]
        reject   == [ok |-> FALSE, answer |-> payload]
    IN IF questions[q].required /\ payload.shape \in {"missing", "empty_str", "empty_obj"}
       THEN reject
       ELSE IF payload.shape = "missing" THEN accept
       ELSE IF qtype = "text" THEN
            IF payload.shape \in {"str", "empty_str"}
            THEN [ok |-> TRUE, answer |-> Payload("text_obj", payload.text, {})]
            ELSE IF payload.shape = "text_obj" THEN accept
            ELSE reject
       ELSE IF qtype = "mcq" THEN
            IF payload.shape \notin {"option_obj", "int"} THEN reject
            ELSE [ok |-> TRUE, answer |-> Payload("option_obj", NoText, payload.ids)]
       ELSE IF qtype = "checkbox" THEN
            IF payload.shape \notin {"options_obj", "list"} THEN reject
            ELSE IF payload.ids = {} THEN reject
            ELSE [ok |-> TRUE, answer |-> Payload("options_obj", NoText, payload.ids)]
       ELSE accept

\* a validation that does not look at the required flag
SerializerValidateOptional(q, payload) ==
    LET qtype    == questions[q].type
        accept   == [ok |-> TRUE, answer |-> payload]
        reject   == [ok |-> FALSE, answer |-> payload]
        own      == {o \in DOMAIN options : options[o] = q}
    IN IF payload.shape = "missing" THEN accept
       ELSE IF qtype = "text" THEN
            IF payload.shape \in {"str", "empty_str"}
            THEN [ok |-> TRUE, answer |-> Payload("text_obj", payload.text, {})]
            ELSE IF payload.shape = "text_obj" THEN accept
            ELSE reject
       ELSE IF qtype = "mcq" THEN
            IF payload.shape \notin {"option_obj", "int"} THEN reject
            ELSE IF payload.ids = {} \/ ~(payload.ids \subseteq own) THEN reject
            ELSE [ok |-> TRUE, answer |-> Payload("option_obj", NoText, payload.ids)]
       ELSE IF qtype = "checkbox" THEN
            IF payload.shape \notin {"options_obj", "list"} THEN reject
            ELSE IF payload.ids = {} \/ ~(payload.ids \subseteq own) THEN reject
            ELSE [ok |-> TRUE, answer |-> Payload("options_obj", NoText, payload.ids)]
       ELSE accept

\* AnswerSerializer.validate: the shape of the payload by question type
SerializerValidate(q, payload) ==
    LET qtype    == questions[q].type
        accept   == [ok |-> TRUE, answer |-> payload]
        reject   == [ok |-> FALSE, answer |-> payload]
        own      == {o \in DOMAIN options : options[o] = q}
    IN IF questions[q].required /\ payload.shape \in {"missing", "empty_str", "empty_obj"}
       THEN reject
       ELSE IF payload.shape = "missing" THEN accept
       ELSE IF qtype = "text" THEN
            IF payload.shape \in {"str", "empty_str"}
            THEN [ok |-> TRUE, answer |-> Payload("text_obj", payload.text, {})]
            ELSE IF payload.shape = "text_obj" THEN accept
            ELSE reject
       ELSE IF qtype = "mcq" THEN
            IF payload.shape \notin {"option_obj", "int"} THEN reject
            ELSE IF payload.ids = {} \/ ~(payload.ids \subseteq own) THEN reject
            ELSE [ok |-> TRUE, answer |-> Payload("option_obj", NoText, payload.ids)]
       ELSE IF qtype = "checkbox" THEN
            IF payload.shape \notin {"options_obj", "list"} THEN reject
            ELSE IF payload.ids = {} \/ ~(payload.ids \subseteq own) THEN reject
            ELSE [ok |-> TRUE, answer |-> Payload("options_obj", NoText, payload.ids)]
       ELSE accept

\* the body of a request to answer-and-next
Request(q, payload, pos, neg, quote) ==
    [question |-> q, answer |-> payload, positive_values |-> pos, negative_values |-> neg,
     quote |-> quote]

\* AnswerSerializer(data).is_valid(): the fields, then validate(); the quote is
\* a CharField, which trims
SerializerIsValid(req) ==
    LET pos == TraitScoresField(req.positive_values)
        neg == TraitScoresField(req.negative_values)
    IN IF req.question \notin QIds \/ ~pos.ok \/ ~neg.ok
       THEN [ok |-> FALSE, answer |-> req.answer, positive_values |-> EmptyMap,
             negative_values |-> EmptyMap, quote |-> EmptyStr]
       ELSE LET v == SerializerValidate(req.question, req.answer)
            IN [ok |-> v.ok, answer |-> v.answer, positive_values |-> pos.value,
                negative_values |-> neg.value, quote |-> Strip(req.quote)]

\* ------------------------------------------------------------------ agents
MIN_TEXT_WORDS == 5
MIN_TEXT_CHARS == 30
\* the longest quote analyze_with_agent lets through
QuoteMax == 140

\* agents._is_text_question
IsTextQuestion(q) == questions[q].type = "text"

\* agents._format_answer_for_llm: the text of {text: ...} stripped; str(None) otherwise
FormatAnswerForLlm(payload) ==
    IF payload.shape = "text_obj" THEN payload.text ELSE Text(4, 1, TRUE, FALSE, FALSE)

\* agents._passes_min_length
PassesMinLength(text) == text.chars >= MIN_TEXT_CHARS /\ text.words >= MIN_TEXT_WORDS

\* agents._looks_placeholder
LooksPlaceholder(text) == text.placeholder \/ text.chars <= 2

\* agents._question_demands_time on the question's payload
QuestionDemandsTime(q) == questions[q].asks_when

\* agents._contains_time_reference
ContainsTimeReference(text) == text.time

Feedback(raised, ok, instrcutions, called) ==
    [raised |-> raised, is_answer_ok |-> ok, instrcutions |-> instrcutions, called |-> called]

\* a validator that looks for a URL before it looks for a time reference
ValidateUrlBeforeTime(q, payload, env) ==
    LET a_payload == FormatAnswerForLlm(payload)
    IN IF ~IsTextQuestion(q) THEN Feedback(FALSE, TRUE, "", FALSE)
       ELSE IF ~env.key_set THEN Feedback(TRUE, FALSE, "", FALSE)
       ELSE IF ~PassesMinLength(a_payload) THEN Feedback(FALSE, FALSE, "length", FALSE)
       ELSE IF LooksPlaceholder(a_payload) THEN Feedback(FALSE, FALSE, "placeholder", FALSE)
       ELSE IF a_payload.url THEN Feedback(FALSE, FALSE, "url", FALSE)
       ELSE IF QuestionDemandsTime(q) /\ ~ContainsTimeReference(a_payload)
            THEN Feedback(FALSE, FALSE, "time", FALSE)
       ELSE IF env.validate = "error" THEN Feedback(TRUE, FALSE, "", TRUE)
       ELSE IF env.validate \in {"model_not_ok", "dict_not_ok"}
            THEN Feedback(FALSE, FALSE, "agent", TRUE)
       ELSE IF env.validate = "dict_no_key" THEN Feedback(FALSE, FALSE, "", TRUE)
       ELSE Feedback(FALSE, TRUE, "", TRUE)

\* agents.validate_with_agent.  env.key_set: OPENAI_API_KEY is set; env.validate:
\* what the validation agent's run gives: "error" (it raises: failure, timeout),
\* "model_ok" / "model_not_ok" (a ValidationResult), "dict_ok" / "dict_not_ok" /
\* "dict_no_key" (a dict), "other" (anything else).  raised: an exception leaves
\* the function; called: the agent was run.
ValidateWithAgent(q, payload, env) ==
    LET a_payload == FormatAnswerForLlm(payload)
    IN IF ~IsTextQuestion(q) THEN Feedback(FALSE, TRUE, "", FALSE)
       ELSE IF ~env.key_set THEN Feedback(TRUE, FALSE, "", FALSE)
       ELSE IF ~PassesMinLength(a_payload) THEN Feedback(FALSE, FALSE, "length", FALSE)
       ELSE IF LooksPlaceholder(a_payload) THEN Feedback(FALSE, FALSE, "placeholder", FALSE)
       ELSE IF QuestionDemandsTime(q) /\ ~ContainsTimeReference(a_payload)
            THEN Feedback(FALSE, FALSE, "time", FALSE)
       ELSE IF a_payload.url THEN Feedback(FALSE, FALSE, "url", FALSE)
       ELSE IF env.validate = "error" THEN Feedback(TRUE, FALSE, "", TRUE)
       ELSE IF env.validate = "model_ok" THEN Feedback(FALSE, TRUE, "", TRUE)
       ELSE IF env.validate = "model_not_ok" THEN Feedback(FALSE, FALSE, "agent", TRUE)
       ELSE IF env.validate = "dict_ok" THEN Feedback(FALSE, TRUE, "", TRUE)
       ELSE IF env.validate = "dict_not_ok" THEN Feedback(FALSE, FALSE, "agent", TRUE)
       ELSE IF env.validate = "dict_no_key" THEN Feedback(FALSE, FALSE, "", TRUE)
       ELSE Feedback(FALSE, TRUE, "", TRUE)

\* a clamp that passes the value on as it came
ClampNothing(val) == val

\* agents._clamp_0_100 on a JSON value; the result is an int, here in hundredths
\* (round(nan) raises like float() of a non-number)
Clamp0To100(val) ==
    LET n == IF Floatable(val) /\ ~val.nan THEN RoundHalfEvenDiv(val.v, Scale) ELSE 0
    IN Num(Max(0, Min(100, n)) * Scale)

Analysis(raised, pos, neg, quote, called) ==
    [raised |-> raised, positive |-> pos, negative |-> neg, quote |-> quote, called |-> called]

\* a scorer that does not ask for the type of the question
AnalyzeEveryType(q, payload, env) ==
    LET out == env.analyze IN
    IF ~env.key_set THEN Analysis(TRUE, EmptyMap, EmptyMap, EmptyStr, FALSE)
    ELSE IF out.kind = "error" THEN Analysis(TRUE, EmptyMap, EmptyMap, EmptyStr, TRUE)
    ELSE Analysis(FALSE,
                  [k \in DOMAIN out.positive |-> Clamp0To100(out.positive[k])],
                  [k \in DOMAIN out.negative |-> Clamp0To100(out.negative[k])],
                  Strip(Truncate(out.quote, QuoteMax)),
                  TRUE)

\* agents.analyze_with_agent.  env.analyze: what the analysis agent's run gives:
\* kind "error" (it raises), "model" (a PersonalityTraits), "dict", "other";
\* positive, negative, quote: the content of a model or dict.
AnalyzeWithAgent(q, payload, env) ==
    LET out == env.analyze IN
    IF ~IsTextQuestion(q) THEN Analysis(FALSE, EmptyMap, EmptyMap, EmptyStr, FALSE)
    ELSE IF ~env.key_set THEN Analysis(TRUE, EmptyMap, EmptyMap, EmptyStr, FALSE)
    ELSE IF out.kind = "error" THEN Analysis(TRUE, EmptyMap, EmptyMap, EmptyStr, TRUE)
    ELSE LET data == IF out.kind = "model"
                     THEN [positive |-> out.positive, negative |-> out.negative,
                           quote |-> out.quote]
                     ELSE IF out.kind = "dict"
                     THEN [positive |-> out.positive, negative |-> out.negative,
                           quote |-> Strip(out.quote)]
                     ELSE [positive |-> EmptyMap, negative |-> EmptyMap, quote |-> EmptyStr]
         IN Analysis(FALSE,
                     [k \in DOMAIN data.positive |-> Clamp0To100(data.positive[k])],
                     [k \in DOMAIN data.negative |-> Clamp0To100(data.negative[k])],
                     Strip(Truncate(data.quote, QuoteMax)),
                     TRUE)

\* ------------------------------------------------------------------ responses
NoProgress == [answered |-> 0, total |-> 0, percent |-> 0, by_category |-> EmptyMap]

NoRow == AnswerRow(None, MissingPayload, EmptyMap, EmptyMap, EmptyStr)

NoFeedback == Feedback(FALSE, FALSE, "", FALSE)

\* the question and the answer of the request an operation served
Sent(q, payload) == [question |-> q, answer |-> payload]

NothingSent == Sent(None, MissingPayload)

\* What an operation returned.  op: the operation; user: the requesting user;
\* users: the owners of the answers it wrote or deleted; status: the HTTP status;
\* error: "" or the kind of rejection; request: what was sent; analysis_called,
\* analysis_raised: the scorer was run, the scorer raised; the other fields are
\* the payload.
Response(op, user, users, status, error) ==
    [op |-> op, user |-> user, users |-> users, status |-> status, error |-> error,
     request |-> NothingSent,
     next_question |-> None, complete |-> FALSE, progress |-> NoProgress,
     saved_answer |-> NoRow, agent |-> NoFeedback, self_analysis |-> NoSelfAnalysis,
     analysis_called |-> FALSE, analysis_raised |-> FALSE]

NoResponse == Response("none", 0, {}, 0, "")

\* ------------------------------------------------------------------ client operations
\* AnswerViewSet.next: GET answers/next/
Next_(u) ==
    /\ \E q_next \in {NextQuestionForUser(answers[u])} :
          response' = [Response("next", u, {}, 200, "") EXCEPT
                         !.next_question = q_next,
                         !.complete = (q_next = None),
                         !.progress = ProgressSnapshot(answers[u])]
    /\ UNCHANGED <<questions, options, answers, self_analysis, inflight>>

\* AnswerViewSet.progress: GET answers/progress/
Progress(u) ==
    /\ response' = [Response("progress", u, {}, 200, "") EXCEPT
                      !.progress = ProgressSnapshot(answers[u])]
    /\ UNCHANGED <<questions, options, answers, self_analysis, inflight>>

\* a rejection that keeps the answer it refuses
RejectedButStored(u, req, agent_feedback) ==
    /\ response' = [Response("answer_and_next", u, {}, 400, "completeness") EXCEPT
                      !.request = Sent(req.question, req.answer),
                      !.agent = agent_feedback]
    /\ answers' = [answers EXCEPT
                     ![u] = UpdateOrCreate(answers[u],
                                AnswerRow(req.question, req.answer, EmptyMap, EmptyMap, EmptyStr))]
    /\ UNCHANGED <<questions, options, self_analysis, inflight>>

\* answer_and_next when the validator says the answer is not ok: the 400 with
\* the agent's feedback, nothing saved
Rejected(u, req, agent_feedback) ==
    /\ response' = [Response("answer_and_next", u, {}, 400, "completeness") EXCEPT
                      !.request = Sent(req.question, req.answer),
                      !.agent = agent_feedback]
    /\ UNCHANGED <<questions, options, answers, self_analysis, inflight>>

\* answer_and_next's gate: the answer to a free-text question is refused when
\* validate_with_agent returned, without raising, a feedback that is not ok
Refuses(is_text, agent_feedback) ==
    is_text /\ ~agent_feedback.raised /\ ~agent_feedback.is_answer_ok

\* trait maps and quote that stay those of the request when the scorer raises
ComputedKeepsRequest(ser, scored, analysis) ==
    IF ~scored \/ analysis.raised
    THEN [positive |-> ser.positive_values, negative |-> ser.negative_values,
          quote |-> ser.quote]
    ELSE [positive |-> analysis.positive, negative |-> analysis.negative,
          quote |-> Strip(analysis.quote)]

\* answer_and_next's computed_positive, computed_negative, computed_quote: the
\* request's validated fields, replaced by the analysis when the scorer was
\* reached (scored), by empty values when it raised
Computed(ser, scored, analysis) ==
    IF ~scored
    THEN [positive |-> ser.positive_values, negative |-> ser.negative_values,
          quote |-> ser.quote]
    ELSE IF analysis.raised
    THEN [positive |-> EmptyMap, negative |-> EmptyMap, quote |-> EmptyStr]
    ELSE [positive |-> analysis.positive, negative |-> analysis.negative,
          quote |-> Strip(analysis.quote)]

\* AnswerViewSet.answer_and_next: POST answers/answer-and-next/
\* (\E x \in {e} names the value of e, computed once)
AnswerAndNext(u, req, env) ==
    \E ser \in {SerializerIsValid(req)} :
    IF ~ser.ok
    THEN /\ response' = [Response("answer_and_next", u, {}, 400, "structural") EXCEPT
                           !.request = Sent(req.question, req.answer)]
         /\ UNCHANGED <<questions, options, answers, self_analysis, inflight>>
    ELSE
    \E agent_feedback \in {ValidateWithAgent(req.question, ser.answer, env)} :
    LET question == req.question
        is_text  == questions[question].type = "text"
    IN
    IF Refuses(is_text, agent_feedback)
    THEN Rejected(u, req, agent_feedback)
    ELSE
    \E analysis \in {AnalyzeWithAgent(question, ser.answer, env)} :
    LET scored   == is_text /\ ~agent_feedback.raised
        computed == Computed(ser, scored, analysis)
        computed_positive == computed.positive
        computed_negative == computed.negative
        computed_quote    == computed.quote
        obj  == AnswerRow(question, ser.answer, computed_positive, computed_negative,
                          computed_quote)
    IN
    IF ~JsonValid(computed_positive) \/ ~JsonValid(computed_negative)
    THEN /\ response' = [Response("answer_and_next", u, {}, 500, "integrity") EXCEPT
                           !.request = Sent(req.question, req.answer),
                           !.agent = IF is_text THEN agent_feedback ELSE NoFeedback,
                           !.analysis_called = scored /\ analysis.called,
                           !.analysis_raised = scored /\ analysis.raised]
         /\ UNCHANGED <<questions, options, answers, self_analysis, inflight>>
    ELSE
    \E rows \in {UpdateOrCreate(answers[u], obj)} :
    \E sa \in {RecalcFromAnswers(AnswersAll(rows))} :
    \E q_next \in {NextQuestionForUser(rows)} :
       /\ answers' = [answers EXCEPT ![u] = rows]
       /\ self_analysis' = [self_analysis EXCEPT ![u] = sa]
       /\ UNCHANGED <<questions, options, inflight>>
       /\ response' = [Response("answer_and_next", u, {u}, 200, "") EXCEPT
                         !.request = Sent(req.question, req.answer),
                         !.saved_answer = obj,
                         !.agent = IF is_text THEN agent_feedback ELSE NoFeedback,
                         !.analysis_called = scored /\ analysis.called,
                         !.analysis_raised = scored /\ analysis.raised,
                         !.next_question = q_next,
                         !.complete = (q_next = None),
                         !.progress = ProgressSnapshot(rows),
                         !.self_analysis = sa]

\* AnswerViewSet (a ModelViewSet) create: POST answers/.  The serializer's
\* fields are stored as sent; a second row of (user, question) breaks
\* unique_together in the database.
Create(u, req) ==
    LET ser == SerializerIsValid(req)
        obj == AnswerRow(req.question, ser.answer, ser.positive_values, ser.negative_values,
                         ser.quote)
    IN
    IF ~ser.ok
    THEN /\ response' = [Response("create", u, {}, 400, "structural") EXCEPT
                           !.request = Sent(req.question, req.answer)]
         /\ UNCHANGED <<questions, options, answers, self_analysis, inflight>>
    ELSE IF \/ HasAnswer(answers[u], req.question)
            \/ ~JsonValid(ser.positive_values) \/ ~JsonValid(ser.negative_values)
    THEN /\ response' = [Response("create", u, {}, 500, "integrity") EXCEPT
                           !.request = Sent(req.question, req.answer)]
         /\ UNCHANGED <<questions, options, answers, self_analysis, inflight>>
    ELSE /\ answers' = [answers EXCEPT ![u] = Append(answers[u], obj)]
         /\ response' = [Response("create", u, {u}, 201, "") EXCEPT
                           !.request = Sent(req.question, req.answer),
                           !.saved_answer = obj]
         /\ UNCHANGED <<questions, options, self_analysis, inflight>>

\* AnswerViewSet (a ModelViewSet) destroy: DELETE answers/<id>/ on a row of the
\* requesting user (get_queryset filters on the user)
Destroy(u, q) ==
    /\ HasAnswer(answers[u], q)
    /\ answers' = [answers EXCEPT ![u] = Without(answers[u], {q})]
    /\ response' = Response("destroy", u, {u}, 204, "")
    /\ UNCHANGED <<questions, options, self_analysis, inflight>>

\* a read of the aggregate that recalculates it
MeRecalculates(u) ==
    /\ self_analysis' = [self_analysis EXCEPT
                           ![u] = RecalcFromAnswers(AnswersAll(answers[u]))]
    /\ response' = [Response("me", u, {}, 200, "") EXCEPT
                      !.self_analysis = RecalcFromAnswers(AnswersAll(answers[u]))]
    /\ UNCHANGED <<questions, options, answers, inflight>>

\* SelfAnalysisViewSet.me (and retrieve): GET self-analysis/me/
Me(u) ==
    /\ self_analysis' = [self_analysis EXCEPT ![u] = GetOrCreate(self_analysis[u])]
    /\ response' = [Response("me", u, {}, 200, "") EXCEPT
                      !.self_analysis = GetOrCreate(self_analysis[u])]
    /\ UNCHANGED <<questions, options, answers, inflight>>

\* a recalculation whose sums start from the stored aggregate instead of zero
RecalcOntoStored(u) ==
    LET fresh  == RecalcFromAnswers(AnswersAll(answers[u]))
        stored == GetOrCreate(self_analysis[u])
        onto(old, new) == [k \in DOMAIN new |-> IF k \in DOMAIN old
                                                THEN Min(old[k] + new[k], 1000 * Scale)
                                                ELSE new[k]]
        sa == SelfAnalysisRow(onto(stored.combined_positives, fresh.combined_positives),
                              onto(stored.combined_negatives, fresh.combined_negatives),
                              fresh.quote)
    IN /\ self_analysis' = [self_analysis EXCEPT ![u] = sa]
       /\ response' = [Response("recalc", u, {}, 200, "") EXCEPT !.self_analysis = sa]
       /\ UNCHANGED <<questions, options, answers, inflight>>

\* SelfAnalysisViewSet.recalc: POST self-analysis/recalc/
Recalc(u) ==
    /\ self_analysis' = [self_analysis EXCEPT
                           ![u] = RecalcFromAnswers(AnswersAll(answers[u]))]
    /\ response' = [Response("recalc", u, {}, 200, "") EXCEPT
                      !.self_analysis = RecalcFromAnswers(AnswersAll(answers[u]))]
    /\ UNCHANGED <<questions, options, answers, inflight>>

\* SelfAnalysisViewSet.overview: GET self-analysis/overview/
Overview(u) ==
    /\ self_analysis' = [self_analysis EXCEPT ![u] = GetOrCreate(self_analysis[u])]
    /\ response' = [Response("overview", u, {}, 200, "") EXCEPT
                      !.self_analysis = GetOrCreate(self_analysis[u]),
                      !.progress = ProgressSnapshot(answers[u])]
    /\ UNCHANGED <<questions, options, answers, inflight>>

\* ------------------------------------------------------------------ administrator
\* AnswerAdmin.save_model: the form's row is saved (added, or changed in place),
\* then the owner's SelfAnalysis is recalculated
SaveModel(u, row) ==
    /\ row.question \in QIds
    /\ answers' = [answers EXCEPT ![u] = UpdateOrCreate(answers[u], row)]
    /\ self_analysis' = [self_analysis EXCEPT
                           ![u] = RecalcFromAnswers(AnswersAll(UpdateOrCreate(answers[u], row)))]
    /\ response' = Response("save_model", 0, {u}, 200, "")
    /\ UNCHANGED <<questions, options, inflight>>

\* ModelAdmin.delete_model (AnswerAdmin does not override it): the delete view
\* of one answer
DeleteModel(u, q) ==
    /\ HasAnswer(answers[u], q)
    /\ answers' = [answers EXCEPT ![u] = Without(answers[u], {q})]
    /\ response' = Response("delete_model", 0, {u}, 200, "")
    /\ UNCHANGED <<questions, options, self_analysis, inflight>>

\* AnswerAdmin.delete_queryset: the "delete selected" action on the answers
\* selected, a set of <<user, question>>
DeleteQueryset(selected) ==
    LET user_ids == {s[1] : s \in selected}
        left(u)  == Without(answers[u], {s[2] : s \in {t \in selected : t[1] = u}})
    IN
    /\ selected # {}
    /\ \A s \in selected : HasAnswer(answers[s[1]], s[2])
    /\ answers' = [u \in Users |-> left(u)]
    /\ self_analysis' = [u \in Users |->
                           IF u \in user_ids /\ self_analysis[u].exists
                           THEN RecalcFromAnswers(AnswersAll(left(u)))
                           ELSE self_analysis[u]]
    /\ response' = Response("delete_queryset", 0, user_ids, 200, "")
    /\ UNCHANGED <<questions, options, inflight>>

\* SelfAnalysisAdmin (ModelAdmin.save_model, not overridden): the administrator
\* saves the form of the SelfAnalysis of user u
SaveSelfAnalysis(u, row) ==
    /\ row.exists
    /\ self_analysis' = [self_analysis EXCEPT ![u] = row]
    /\ response' = Response("save_self_analysis", 0, {}, 200, "")
    /\ UNCHANGED <<questions, options, answers, inflight>>

\* SelfAnalysisAdmin.recalc_selected: the action on the SelfAnalysis rows of
\* the users selected
RecalcSelected(selected) ==
    /\ selected # {}
    /\ \A u \in selected : self_analysis[u].exists
    /\ self_analysis' = [u \in Users |->
                           IF u \in selected THEN RecalcFromAnswers(AnswersAll(answers[u]))
                           ELSE self_analysis[u]]
    /\ response' = Response("recalc_selected", 0, {}, 200, "")
    /\ UNCHANGED <<questions, options, answers, inflight>>

\* QuestionAdmin: the administrator changes is_active of a question
SetActive(q, active) ==
    /\ questions[q].is_active # active
    /\ questions' = [questions EXCEPT ![q].is_active = active]
    /\ response' = Response("set_active", 0, {}, 200, "")
    /\ UNCHANGED <<options, answers, self_analysis, inflight>>

\* ------------------------------------------------------------------ environment
\* what the external capabilities give during one request
Env(key_set, validate, analyze) == [key_set |-> key_set, validate |-> validate, analyze |-> analyze]

AgentOutput(kind, pos, neg, quote) == [kind |-> kind, positive |-> pos, negative |-> neg, quote |-> quote]

\* the capabilities answer, the validation agent accepts, the analysis agent finds nothing
QuietEnv == Env(TRUE, "model_ok", AgentOutput("model", EmptyMap, EmptyMap, EmptyStr))

EmptyTables ==
    /\ answers = [u \in Users |-> << >>]
    /\ self_analysis = [u \in Users |-> NoSelfAnalysis]
    /\ response = NoResponse
    /\ inflight = << >>

\* ------------------------------------------------------------------ resolver
\* The resolver on every small catalog: any acyclic parent relation and any
\* orders on NumQuestions single-choice questions, each with one option; users
\* answer and delete in any order, the administrator switches questions on and off.
ResolverUsers == {1}

RECURSIVE ReachesRoot(_, _, _)
ReachesRoot(par, q, n) ==
    IF q = None THEN TRUE ELSE IF n = 0 THEN FALSE ELSE ReachesRoot(par, par[q], n - 1)

Acyclic(par) == \A q \in DOMAIN par : ReachesRoot(par, q, Cardinality(DOMAIN par))

InitResolver ==
    /\ \E par \in [1..NumQuestions -> 0..NumQuestions], ord \in [1..NumQuestions -> 0..MaxOrder] :
          /\ Acyclic(par)
          /\ questions = [q \in 1..NumQuestions |->
                            Question("mcq", par[q], NullCategory, FALSE, TRUE, ord[q], FALSE)]
    /\ options = [o \in 1..NumQuestions |-> o]
    /\ EmptyTables

NextResolver ==
    \/ \E u \in ResolverUsers : Next_(u)
    \/ \E u \in ResolverUsers, q \in QIds :
          AnswerAndNext(u, Request(q, Payload("option_obj", NoText, {q}), EmptyMap, EmptyMap,
                                   EmptyStr), QuietEnv)
    \/ \E u \in ResolverUsers, q \in QIds : Destroy(u, q)
    \/ \E q \in QIds, active \in BOOLEAN : SetActive(q, active)

SpecResolver == InitResolver /\ [][NextResolver]_vars

\* every ancestor of a question: its parent, the parent's parent, ... up to the root
RECURSIVE AncestorsOf(_)
AncestorsOf(q) ==
    IF questions[q].parent = None THEN {}
    ELSE {questions[q].parent} \cup AncestorsOf(questions[q].parent)

\* the active questions a user has not answered and whose ancestors are all answered
Eligible(u) ==
    {q \in ActiveIds : q \notin AnsweredIdsForUser(answers[u]) /\ AncestorsOf(q) \subseteq AnsweredIdsForUser(answers[u])}

\* C1: next_question_for_user never returns a question that has an ancestor the
\* user has not answered.
C1_AncestorsOfNextAnswered ==
    \A u \in Users :
        LET q == NextQuestionForUser(answers[u])
        IN q # None => AncestorsOf(q) \subseteq AnsweredIdsForUser(answers[u])

C3_NextIsFirstEligible ==
    \A u \in Users :
        LET q == NextQuestionForUser(answers[u])
        IN q # None =>
             /\ q \in Eligible(u)
             /\ \A o \in Eligible(u) \ {q} : OrderLess(q, o)

\* ------------------------------------------------------------------ progress
\* Progress on a flat catalog of ProgressQuestions single-choice questions, the
\* odd ones in category "core" and the even ones in none: a user answers the
\* question the resolver gives, the administrator switches off the last active
\* question or switches it on again, so that every pair answered <= total occurs.
ProgressUsers == {1}

InitProgress ==
    /\ questions = [q \in 1..ProgressQuestions |->
                      Question("mcq", None, IF q % 2 = 1 THEN "core" ELSE NullCategory,
                               FALSE, TRUE, 0, FALSE)]
    /\ options = [o \in 1..ProgressQuestions |-> o]
    /\ EmptyTables

NextProgress ==
    \/ \E u \in ProgressUsers : Progress(u)
    \/ \E u \in ProgressUsers : Next_(u)
    \/ \E u \in ProgressUsers :
          LET q == NextQuestionForUser(answers[u]) IN
          /\ q # None
          /\ AnswerAndNext(u, Request(q, Payload("option_obj", NoText, {q}), EmptyMap, EmptyMap,
                                      EmptyStr), QuietEnv)
    \/ \E q \in QIds :
          /\ \A o \in ActiveIds : o <= q
          /\ q \in ActiveIds
          /\ SetActive(q, FALSE)
    \/ \E q \in QIds :
          /\ \A o \in QIds \ ActiveIds : q <= o
          /\ q \notin ActiveIds
          /\ SetActive(q, TRUE)

SpecProgress == InitProgress /\ [][NextProgress]_vars

\* floor(answered / total * 100), and 0 when total is 0
FloorPercent(answered, total) == IF total = 0 THEN 0 ELSE (answered * 100) \div total

\* C4: the percent of a progress report is floor(answered/total*100), 0 when
\* total is 0, and within [0,100]; so is the percent of every by_category bucket.
C4_PercentIsFloor ==
    response.op \in {"progress", "next", "answer_and_next"} /\ response.status = 200 =>
        LET p == response.progress IN
        /\ p.answered <= p.total
        /\ p.percent = FloorPercent(p.answered, p.total)
        /\ p.percent \in 0..100
        /\ \A c \in DOMAIN p.by_category :
              /\ p.by_category[c].answered <= p.by_category[c].total
              /\ p.by_category[c].percent =
                    FloorPercent(p.by_category[c].answered, p.by_category[c].total)
              /\ p.by_category[c].percent \in 0..100

\* ------------------------------------------------------------------ aggregate
\* The aggregate of one user over NumQuestions free-text questions: the user
\* answers (the scoring capability gives one of AggOutputs), the administrator
\* writes a row by hand (a JSON value of a trait map may then be no number),
\* answers are deleted, the user asks for a recalculation.
AggUsers == {1}

\* a free text that passes the local checks of validate_with_agent
GoodText == Text(40, 8, FALSE, FALSE, FALSE)

AggOutputs ==
    {AgentOutput("model", "calm" :> Num(8000), EmptyMap, Str(1, 0, 20, 0)),
     AgentOutput("model", "calm" :> Num(4500) @@ "bold" :> Num(3000),
                 "calm" :> Num(1000) @@ "fear" :> Num(2000), Str(2, 0, 30, 0))}

\* the row an administrator types in: "grit" and "calm" are the JSON string "high"
AdminRow(q) ==
    AnswerRow(q, Payload("text_obj", GoodText, {}),
              "grit" :> NonNumeric @@ "calm" :> NonNumeric @@ "bold" :> Num(1250),
              EmptyMap, EmptyStr)

InitAgg ==
    /\ questions = [q \in 1..NumQuestions |->
                      Question("text", None, NullCategory, FALSE, TRUE, 0, FALSE)]
    /\ options = << >>
    /\ EmptyTables

NextAgg ==
    \/ \E u \in AggUsers, q \in QIds, out \in AggOutputs :
          AnswerAndNext(u, Request(q, Payload("text_obj", GoodText, {}), EmptyMap, EmptyMap,
                                   EmptyStr), Env(TRUE, "model_ok", out))
    \/ \E u \in AggUsers, q \in QIds : SaveModel(u, AdminRow(q))
    \/ \E u \in AggUsers, q \in QIds : Destroy(u, q)
    \/ \E u \in AggUsers : Recalc(u)

SpecAgg == InitAgg /\ [][NextAgg]_vars

\* the positive / negative maps of the stored answers of user u, oldest first
PositiveMaps(u) == [i \in 1..Len(answers[u]) |-> answers[u][i].positive_values]
NegativeMaps(u) == [i \in 1..Len(answers[u]) |-> answers[u][i].negative_values]

\* the answers whose map contains key k, and those where its value is a number
Containing(maps, k) == {i \in 1..Len(maps) : k \in DOMAIN maps[i]}
Numeric(maps, k) == {i \in Containing(maps, k) : maps[i][k].num}

\* the sum of the values of key k over the answers in S
RECURSIVE SumOver(_, _, _)
SumOver(S, maps, k) ==
    IF S = {} THEN 0
    ELSE LET i == CHOOSE j \in S : TRUE IN maps[i][k].v + SumOver(S \ {i}, maps, k)

Abs(n) == IF n < 0 THEN -n ELSE n

\* a recalculation for user u has just been answered
Recalculated(u) == response.op = "recalc" /\ response.user = u /\ response.status = 200

\* C5: recalculate is idempotent: a second recalculate right after a first, the
\* answers unchanged in between, leaves the aggregate as the first left it.
C5_RecalcIdempotent ==
    [][(response.op = "recalc" /\ response'.op = "recalc" /\ response'.user = response.user)
          => /\ self_analysis'[response.user] = self_analysis[response.user]
             /\ response'.self_analysis = response.self_analysis]_vars

\* C5 witness: a recalculation has given an aggregate with scores and a quote
\* (a second one can follow at once)
C5_Witness ==
    \E u \in Users :
        /\ Recalculated(u)
        /\ DOMAIN self_analysis[u].combined_positives # {}
        /\ Truthy(self_analysis[u].quote)
        /\ Len(answers[u]) >= 2

\* v is, within half a hundredth, the mean of key k's values over the answers in S
IsMean(v, S, maps, k) ==
    /\ S # {}
    /\ 2 * Abs(v * Cardinality(S) - SumOver(S, maps, k)) <= Cardinality(S)

\* C6 as stated: after recalculate every aggregate value is the arithmetic mean
\* (to two decimals) of the key's values over the answers whose map contains
\* the key, each of them giving a value to the mean.
C6_MeanOverContaining ==
    \A u \in Users : Recalculated(u) =>
        /\ \A k \in DOMAIN self_analysis[u].combined_positives :
              /\ Numeric(PositiveMaps(u), k) = Containing(PositiveMaps(u), k)
              /\ IsMean(self_analysis[u].combined_positives[k],
                        Containing(PositiveMaps(u), k), PositiveMaps(u), k)
        /\ \A k \in DOMAIN self_analysis[u].combined_negatives :
              /\ Numeric(NegativeMaps(u), k) = Containing(NegativeMaps(u), k)
              /\ IsMean(self_analysis[u].combined_negatives[k],
                        Containing(NegativeMaps(u), k), NegativeMaps(u), k)

\* every value of agg is the rounded mean over the answers that hold a number for its key
RoundedMean(agg, maps) ==
    \A k \in DOMAIN agg : IsMean(agg[k], Numeric(maps, k), maps, k)

\* C6 amended: after recalculate every aggregate value is the mean, rounded to
\* two decimals, of the key's values over only the answers whose map holds a
\* number for the key; the positive aggregate reads only the positive maps and
\* the negative aggregate only the negative maps.
C6_RoundedMeanOverNumeric ==
    \A u \in Users : Recalculated(u) =>
        /\ RoundedMean(self_analysis[u].combined_positives, PositiveMaps(u))
        /\ RoundedMean(self_analysis[u].combined_negatives, NegativeMaps(u))

\* C6 witness: of three answers one holds "fear" (20) and the aggregate of
\* "fear" is 20.00; one holds "high" for "calm" and is left out of its mean;
\* "calm" is in the positive and the negative aggregate with different values
C6_Witness ==
    \E u \in Users :
        /\ Recalculated(u)
        /\ Len(answers[u]) = 3
        /\ Cardinality(Containing(NegativeMaps(u), "fear")) = 1
        /\ "fear" \in DOMAIN self_analysis[u].combined_negatives
        /\ self_analysis[u].combined_negatives["fear"] = 2000
        /\ Numeric(PositiveMaps(u), "calm") # Containing(PositiveMaps(u), "calm")
        /\ "calm" \in DOMAIN self_analysis[u].combined_negatives
        /\ self_analysis[u].combined_positives["calm"] # self_analysis[u].combined_negatives["calm"]

\* the answers of u that hold a quote
WithQuote(u) == {i \in 1..Len(answers[u]) : Truthy(answers[u][i].quote)}

\* C7: after recalculate the quote of the aggregate is the quote of the newest
\* answer that has one, and is empty only when no answer has one.
C7_QuoteOfNewestAnswer ==
    \A u \in Users : Recalculated(u) =>
        IF WithQuote(u) = {} THEN self_analysis[u].quote = EmptyStr
        ELSE LET newest == CHOOSE i \in WithQuote(u) : \A j \in WithQuote(u) : j <= i
             IN self_analysis[u].quote = answers[u][newest].quote

\* the keys of the maps
KeysOf(maps) == UNION {DOMAIN maps[i] : i \in 1..Len(maps)}

\* C8 as stated: after recalculate the keys of each aggregate map are the union
\* of the keys of the stored answers' maps.
C8_KeysAreUnionOfStoredKeys ==
    \A u \in Users : Recalculated(u) =>
        /\ DOMAIN self_analysis[u].combined_positives = KeysOf(PositiveMaps(u))
        /\ DOMAIN self_analysis[u].combined_negatives = KeysOf(NegativeMaps(u))

\* C8 amended: after recalculate the keys of each aggregate map are the keys
\* for which some stored answer holds a number; with no answer stored both
\* maps are empty.
C8_KeysAreNumericStoredKeys ==
    \A u \in Users : Recalculated(u) =>
        /\ DOMAIN self_analysis[u].combined_positives =
              {k \in KeysOf(PositiveMaps(u)) : Numeric(PositiveMaps(u), k) # {}}
        /\ DOMAIN self_analysis[u].combined_negatives =
              {k \in KeysOf(NegativeMaps(u)) : Numeric(NegativeMaps(u), k) # {}}
        /\ answers[u] = << >> =>
              /\ self_analysis[u].combined_positives = EmptyMap
              /\ self_analysis[u].combined_negatives = EmptyMap

\* C8 witness: a stored key ("grit", never a number) is left out of the
\* aggregate, which holds the other keys
C8_Witness ==
    \E u \in Users :
        /\ Recalculated(u)
        /\ "grit" \in KeysOf(PositiveMaps(u))
        /\ "grit" \notin DOMAIN self_analysis[u].combined_positives
        /\ {"calm", "bold"} \subseteq DOMAIN self_analysis[u].combined_positives

\* ------------------------------------------------------------------ deletions
\* Every way an answer is deleted, for NumUsers users on DeleteQuestions
\* free-text questions: answers come from answer-and-next (scored) or from a
\* plain POST (stored as sent, no aggregate written).
InitDelete ==
    /\ questions = [q \in 1..DeleteQuestions |->
                      Question("text", None, NullCategory, FALSE, TRUE, 0, FALSE)]
    /\ options = << >>
    /\ EmptyTables

DeleteOutput == AgentOutput("model", "calm" :> Num(8000), "fear" :> Num(2000), Str(1, 0, 20, 0))

NextDelete ==
    \/ \E u \in Users, q \in QIds :
          AnswerAndNext(u, Request(q, Payload("text_obj", GoodText, {}), EmptyMap, EmptyMap,
                                   EmptyStr), Env(TRUE, "model_ok", DeleteOutput))
    \/ \E u \in Users, q \in QIds :
          Create(u, Request(q, Payload("text_obj", GoodText, {}), "calm" :> Num(6000), EmptyMap,
                            Str(3, 0, 10, 0)))
    \/ \E u \in Users, q \in QIds : Destroy(u, q)
    \/ \E u \in Users, q \in QIds : DeleteModel(u, q)
    \/ \E selected \in SUBSET (Users \X QIds) : DeleteQueryset(selected)

SpecDelete == InitDelete /\ [][NextDelete]_vars

\* C9: after any deletion of answers (the owner's DELETE, the administrator's
\* delete of one answer, the administrator's bulk delete) the stored aggregate
\* of each owner (empty when no row is stored yet) is the aggregate of the
\* answers that owner has left.
C9_DeletionRecalculates ==
    response.op \in {"destroy", "delete_model", "delete_queryset"} =>
        \A u \in response.users :
            GetOrCreate(self_analysis[u]) = RecalcFromAnswers(AnswersAll(answers[u]))

\* ------------------------------------------------------------------ pipeline
\* The submission pipeline alone: one user, PipelineQuestions questions, the
\* last a single-choice question and the others free-text; the client sends
\* any of ClientMaps, the environment is any of PipelineEnvs.
PipelineUsers == {1}

InitPipeline ==
    /\ questions = [q \in 1..PipelineQuestions |->
                      Question(IF q = PipelineQuestions THEN "mcq" ELSE "text", None,
                               NullCategory, FALSE, TRUE, 0, FALSE)]
    /\ options = [o \in 1..PipelineQuestions |-> o]
    /\ EmptyTables

\* what a client sends as positive_values: nothing, 50.5, 100.5, "nan", "high"
ClientMaps ==
    {EmptyMap, "calm" :> Num(5050), "calm" :> Num(10050), "calm" :> NaN, "calm" :> NonNumeric}

\* what the scoring capability returns: a failure; a PersonalityTraits with
\* 150, -5, 50.5 and 49.6 and a quote of 150 characters; a dict with "high",
\* nan, 70 and 150 and a quote in spaces; something else
ScorerOutputs ==
    {AgentOutput("error", EmptyMap, EmptyMap, EmptyStr),
     AgentOutput("model", "over" :> Num(15000) @@ "under" :> Num(-500),
                 "half" :> Num(5050) @@ "frac" :> Num(4960), Str(1, 0, 150, 0)),
     AgentOutput("dict", "text" :> NonNumeric @@ "nan" :> NaN @@ "whole" :> Num(7000),
                 "over" :> Num(15000), Str(2, 2, 10, 2)),
     AgentOutput("other", EmptyMap, EmptyMap, EmptyStr)}

PipelineEnvs ==
    {Env(TRUE, "model_ok", out) : out \in ScorerOutputs}
    \cup {Env(TRUE, "model_not_ok", out) : out \in {AgentOutput("other", EmptyMap, EmptyMap, EmptyStr)}}
    \cup {Env(TRUE, "error", out) : out \in {AgentOutput("other", EmptyMap, EmptyMap, EmptyStr)}}
    \cup {Env(FALSE, "model_ok", out) : out \in {AgentOutput("other", EmptyMap, EmptyMap, EmptyStr)}}

\* the answer a client sends to question q: a good one, or a text too short
PipelinePayloads(q) ==
    IF questions[q].type = "text"
    THEN {Payload("text_obj", GoodText, {}), Payload("str", Text(10, 2, FALSE, FALSE, FALSE), {})}
    ELSE {Payload("option_obj", NoText, {q})}

NextPipeline ==
    \/ \E u \in PipelineUsers, q \in QIds, pos \in ClientMaps, env \in PipelineEnvs :
          \E payload \in PipelinePayloads(q) :
              AnswerAndNext(u, Request(q, payload, pos, EmptyMap, Str(3, 1, 10, 0)), env)
    \/ \E u \in PipelineUsers : Next_(u)

SpecPipeline == InitPipeline /\ [][NextPipeline]_vars

\* what the scores of ScorerOutputs are when rounded to an integer and clamped
\* into [0,100], a non-number taken as 0
ExpectedScore ==
    "over" :> 100 @@ "under" :> 0 @@ "half" :> 50 @@ "frac" :> 50 @@ "text" :> 0 @@ "nan" :> 0
    @@ "whole" :> 70

\* every value of the map is a number within [0,100]
InRange(map) ==
    \A k \in DOMAIN map : map[k].num /\ ~map[k].nan /\ map[k].v >= 0 /\ map[k].v <= 100 * Scale

\* every value of the map is the scorer's score as an integer clamped into [0,100]
Clamped(map) ==
    \A k \in DOMAIN map :
        /\ k \in DOMAIN ExpectedScore
        /\ map[k] = Num(ExpectedScore[k] * Scale)

\* C10: every trait score the submission pipeline stores is within [0,100];
\* what the scoring capability returned is stored as an integer clamped into
\* [0,100], a non-numeric score as 0.
C10_StoredScoresClamped ==
    /\ \A u \in Users : \A i \in 1..Len(answers[u]) :
          InRange(answers[u][i].positive_values) /\ InRange(answers[u][i].negative_values)
    /\ (response.op = "answer_and_next" /\ response.status = 200 /\ response.analysis_called) =>
          /\ Clamped(response.saved_answer.positive_values)
          /\ Clamped(response.saved_answer.negative_values)
          /\ \E i \in 1..Len(answers[response.user]) :
                answers[response.user][i] = response.saved_answer

\* C10 witness: an answer is stored with the scores "high" and nan as 0, 70
\* as 70 and 150 as 100
C10_Witness ==
    /\ response.op = "answer_and_next" /\ response.status = 200 /\ response.analysis_called
    /\ \E i \in 1..Len(answers[response.user]) :
          LET row == answers[response.user][i] IN
          /\ row = response.saved_answer
          /\ DOMAIN row.positive_values = {"text", "nan", "whole"}
          /\ row.positive_values["text"] = Num(0)
          /\ row.positive_values["nan"] = Num(0)
          /\ row.positive_values["whole"] = Num(70 * Scale)
          /\ DOMAIN row.negative_values = {"over"}
          /\ row.negative_values["over"] = Num(100 * Scale)

\* ------------------------------------------------------------------ choice questions
\* Submissions to choice questions: the odd questions are single-choice, the
\* even ones multiple-choice, each with two options (those of question q are
\* 2q-1 and 2q); all are required or none is.  A client sends every shape of
\* payload, with a quote of 200 characters between spaces.
ChoiceUsers == {1}

InitChoice ==
    /\ \E required \in BOOLEAN :
          questions = [q \in 1..ChoiceQuestions |->
                         Question(IF q % 2 = 1 THEN "mcq" ELSE "checkbox", None, NullCategory,
                                  required, TRUE, 0, FALSE)]
    /\ options = [o \in 1..(2 * ChoiceQuestions) |-> (o + 1) \div 2]
    /\ EmptyTables

LongQuote == Str(4, 1, 200, 1)

\* the sets of option ids a client names: none, one of question 1, one of
\* question 2, both of question 1, both of question 2, one of each
ChoiceIdSets == {{}, {1}, {3}, {1, 2}, {3, 4}, {1, 3}}

ChoicePayloads ==
    {MissingPayload, Payload("empty_str", NoText, {}), Payload("empty_obj", NoText, {}),
     Payload("other", NoText, {}), Payload("text_obj", GoodText, {})}
    \cup {Payload(shape, NoText, ids) : shape \in {"int", "option_obj"}, ids \in {{1}, {3}}}
    \cup {Payload(shape, NoText, ids) : shape \in {"list", "options_obj"}, ids \in ChoiceIdSets}

NextChoice ==
    \/ \E u \in ChoiceUsers, q \in QIds, payload \in ChoicePayloads :
          AnswerAndNext(u, Request(q, payload, EmptyMap, EmptyMap, LongQuote), QuietEnv)
    \/ \E u \in ChoiceUsers, q \in QIds, payload \in ChoicePayloads :
          Create(u, Request(q, payload, EmptyMap, EmptyMap, LongQuote))

SpecChoice == InitChoice /\ [][NextChoice]_vars

\* C11: every stored answer has a quote of at most 140 characters, whatever the
\* length of the quote the scoring capability returned or the request held.
C11_StoredQuoteAtMost140 ==
    \A u \in Users : \A i \in 1..Len(answers[u]) : StrLen(answers[u][i].quote) <= 140

\* the options of question q
OptionsOf(q) == {o \in DOMAIN options : options[o] = q}

\* the payload names options of question q in the shape of q's type: one
\* option as {option: id} or a bare id, a non-empty list as {options: [ids]}
\* or a bare list
WellFormedChoice(q, payload) ==
    /\ payload.ids # {}
    /\ payload.ids \subseteq OptionsOf(q)
    /\ \/ questions[q].type = "mcq" /\ payload.shape \in {"option_obj", "int"}
             /\ Cardinality(payload.ids) = 1
       \/ questions[q].type = "checkbox" /\ payload.shape \in {"options_obj", "list"}

\* the stored payload of a choice question is {option: id} / {options: [ids]}
\* on the question's own options
StoredChoice(row) ==
    /\ row.answer.shape = (IF questions[row.question].type = "mcq" THEN "option_obj"
                                                                    ELSE "options_obj")
    /\ WellFormedChoice(row.question, row.answer)

IsChoice(q) == q \in QIds /\ questions[q].type \in {"mcq", "checkbox"}

\* a submission (to answer-and-next or as a plain POST) has just been served
Submitted == response.op \in {"answer_and_next", "create"}

\* a step that serves a submission with a structural rejection writes nothing
StructuralRejectionWritesNothing ==
    (response'.op \in {"answer_and_next", "create"} /\ response'.error = "structural")
        => UNCHANGED <<answers, self_analysis>>

\* C13 as stated: every stored answer to a choice question holds options of
\* that question in the shape of its type; every other payload, a missing one
\* included, is rejected as a structural error and nothing is stored.
C13_OnlyOwnOptionsStored ==
    /\ [](\A u \in Users : \A i \in 1..Len(answers[u]) :
             IsChoice(answers[u][i].question) => StoredChoice(answers[u][i]))
    /\ []((Submitted /\ IsChoice(response.request.question)
             /\ ~WellFormedChoice(response.request.question, response.request.answer))
           => (response.status = 400 /\ response.error = "structural"))
    /\ [][StructuralRejectionWritesNothing]_vars

\* C13 amended: every stored answer to a choice question holds options of that
\* question in the shape of its type, or no payload at all when the question
\* is not required; every payload that is present and is anything else is
\* rejected as a structural error, a missing payload is rejected when the
\* question is required, and a rejection stores nothing.
C13_OwnOptionsOrNothingStored ==
    /\ [](\A u \in Users : \A i \in 1..Len(answers[u]) :
             IsChoice(answers[u][i].question) =>
                \/ StoredChoice(answers[u][i])
                \/ /\ answers[u][i].answer = MissingPayload
                   /\ ~questions[answers[u][i].question].required)
    /\ []((Submitted /\ IsChoice(response.request.question)
             /\ ~WellFormedChoice(response.request.question, response.request.answer)
             /\ (response.request.answer = MissingPayload
                    => questions[response.request.question].required))
           => (response.status = 400 /\ response.error = "structural"))
    /\ []((Submitted /\ IsChoice(response.request.question)
             /\ response.request.answer = MissingPayload
             /\ ~questions[response.request.question].required)
           => response.error # "structural")
    /\ [][StructuralRejectionWritesNothing]_vars

\* C13 witness: an answer without payload is stored for a single-choice
\* question that is not required, an answer with both its options for a
\* multiple-choice question, and an option of another question has just been
\* refused
C13_Witness ==
    /\ Submitted /\ response.status = 400 /\ response.error = "structural"
    /\ IsChoice(response.request.question)
    /\ response.request.answer.ids # {}
    /\ ~(response.request.answer.ids \subseteq OptionsOf(response.request.question))
    /\ \E u \in Users : \E i, j \in 1..Len(answers[u]) :
          /\ questions[answers[u][i].question].type = "mcq"
          /\ answers[u][i].answer = MissingPayload
          /\ questions[answers[u][j].question].type = "checkbox"
          /\ Cardinality(answers[u][j].answer.ids) = 2

\* ------------------------------------------------------------------ free-text questions
\* Submissions to free-text questions, none of them required; all of them ask
\* "when" or none does.  A client sends the texts of Texts; the API key is set
\* or not, the validation agent fails, accepts, refuses, or returns something
\* that is neither a ValidationResult nor a dict.
TextUsers == {1}

InitText ==
    /\ \E asks_when \in BOOLEAN :
          questions = [q \in 1..TextQuestions |->
                         Question("text", None, NullCategory, FALSE, TRUE, 0, asks_when)]
    /\ options = << >>
    /\ EmptyTables

\* "no"; 4 words in 25 characters; 8 words in 40 characters; 10 words in 60
\* characters with a month; the same with a link too; with a link and no month
Texts ==
    {Text(2, 1, TRUE, FALSE, FALSE), Text(25, 4, FALSE, FALSE, FALSE), GoodText,
     Text(60, 10, FALSE, TRUE, FALSE), Text(60, 10, FALSE, TRUE, TRUE),
     Text(60, 10, FALSE, FALSE, TRUE)}

TextPayloads ==
    {Payload("text_obj", t, {}) : t \in Texts}
    \cup {Payload("str", GoodText, {}), MissingPayload, Payload("empty_str", NoText, {}),
          Payload("other", NoText, {})}

TextOutput == AgentOutput("model", "calm" :> Num(8000), EmptyMap, Str(1, 0, 150, 0))

TextEnvs ==
    {Env(TRUE, validate, TextOutput) :
        validate \in {"error", "model_ok", "model_not_ok", "dict_no_key", "other"}}
    \cup {Env(FALSE, "model_ok", TextOutput)}

NextText ==
    \/ \E u \in TextUsers, q \in QIds, payload \in TextPayloads, env \in TextEnvs :
          AnswerAndNext(u, Request(q, payload, EmptyMap, EmptyMap, Str(3, 0, 10, 0)), env)
    \/ \E u \in TextUsers : Next_(u)

SpecText == InitText /\ [][NextText]_vars

\* a text has been submitted for a free-text question and was not refused for
\* its structure
TextSubmitted ==
    /\ response.op = "answer_and_next" /\ response.error # "structural"
    /\ response.request.question \in QIds
    /\ questions[response.request.question].type = "text"
    /\ response.request.answer.shape \in {"str", "text_obj"}

\* the text is one of the listed placeholders or has at most 2 characters
IsPlaceholder(t) == t.placeholder \/ t.chars <= 2

\* C12: a TEXT answer that is a listed placeholder ("no", "n/a", ...) or has at
\* most 2 characters is rejected with the placeholder instruction.
C12_PlaceholderInstruction ==
    (TextSubmitted /\ IsPlaceholder(response.request.answer.text)) =>
        /\ response.status = 400 /\ response.error = "completeness"
        /\ response.agent.instrcutions = "placeholder"

\* the answer-and-next just served refused the answer for its completeness
RejectedForCompleteness ==
    response.op = "answer_and_next" /\ response.status = 400 /\ response.error = "completeness"

\* the environments in which the validation agent, when it is run, refuses
Refusing == {env \in TextEnvs : env.key_set /\ env.validate \in {"model_not_ok", "dict_no_key"}}

\* what the validator says to the request just served when it is sent again in
\* environment env
Resubmitted(env) ==
    ValidateWithAgent(response.request.question,
                      SerializerValidate(response.request.question, response.request.answer).answer,
                      env)

\* C14: a TEXT submission rejected for completeness writes nothing: the stored
\* answers (an earlier accepted answer to the same question included), the
\* aggregate, and with them the next question and the progress, are as before;
\* sent again, the same answer gets the same rejection (from the local checks
\* whatever the agent would say, from the agent whenever it refuses again).
C14_RejectionWritesNothing ==
    /\ [][(response'.op = "answer_and_next" /\ response'.error = "completeness")
            => UNCHANGED <<questions, options, answers, self_analysis>>]_vars
    /\ [](RejectedForCompleteness =>
             \A env \in TextEnvs :
                 /\ (env.key_set /\ ~response.agent.called) => Resubmitted(env) = response.agent
                 /\ (env \in Refusing /\ response.agent.called)
                       => /\ ~Resubmitted(env).is_answer_ok
                          /\ ~Resubmitted(env).raised)

\* C14 witness: an answer is refused by a local check while an earlier,
\* accepted and scored answer to the same question is stored
C14_Witness ==
    /\ RejectedForCompleteness
    /\ ~response.agent.called
    /\ \E i \in 1..Len(answers[response.user]) :
          /\ answers[response.user][i].question = response.request.question
          /\ DOMAIN answers[response.user][i].positive_values # {}
    /\ self_analysis[response.user].exists
    /\ DOMAIN self_analysis[response.user].combined_positives # {}

\* the first of the local checks (a) length, (b) placeholder, (c) time
\* reference, (d) URL that the text t fails for question q, "" when it passes all
FirstFailing(q, t) ==
    IF ~(t.words >= 5 /\ t.chars >= 30) THEN "length"
    ELSE IF IsPlaceholder(t) THEN "placeholder"
    ELSE IF questions[q].asks_when /\ ~t.time THEN "time"
    ELSE IF t.url THEN "url"
    ELSE ""

\* the outcome of the local checks for the text submitted: a failure is
\* answered with the instruction of the first failing check, the agent not
\* run; the agent is run only for a text that passes the four checks
LocalChecksInOrder ==
    LET first == FirstFailing(response.request.question, response.request.answer.text) IN
    /\ first # "" =>
          /\ response.status = 400 /\ response.error = "completeness"
          /\ ~response.agent.is_answer_ok
          /\ response.agent.instrcutions = first
          /\ ~response.agent.called
    /\ response.agent.called => first = ""

\* validate_with_agent found no API key and raised before any check
KeyMissing == response.agent.raised /\ ~response.agent.called

AdminOps ==
    {"save_model", "delete_model", "delete_queryset", "set_active", "save_self_analysis",
     "recalc_selected"}

\* Two users answer UpsertQuestions free-text questions again and again, by
\* answer-and-next (the scoring capability gives DeleteOutput) or by a plain
\* POST.
UpsertUsers == {1, 2}

InitUpsert ==
    /\ questions = [q \in 1..UpsertQuestions |->
                      Question("text", None, NullCategory, FALSE, TRUE, 0, FALSE)]
    /\ options = << >>
    /\ EmptyTables

NextUpsert ==
    \/ \E u \in UpsertUsers, q \in QIds :
          AnswerAndNext(u, Request(q, Payload("text_obj", GoodText, {}), EmptyMap, EmptyMap,
                                   EmptyStr), Env(TRUE, "model_ok", DeleteOutput))
    \/ \E u \in UpsertUsers, q \in QIds :
          Create(u, Request(q, Payload("text_obj", GoodText, {}), "calm" :> Num(6000), EmptyMap,
                            Str(3, 0, 10, 0)))

SpecUpsert == InitUpsert /\ [][NextUpsert]_vars

\* an accepted answer-and-next of user u for question q: the row of (u, q) is
\* overwritten where it is, or a row is added; the other rows stay
Upserted(u, q) ==
    /\ response'.saved_answer.question = q
    /\ response'.saved_answer.answer = SerializerValidate(q, response'.request.answer).answer
    /\ IF HasAnswer(answers[u], q)
       THEN /\ Len(answers'[u]) = Len(answers[u])
            /\ \A i \in 1..Len(answers[u]) :
                  answers'[u][i] = IF answers[u][i].question = q THEN response'.saved_answer
                                                                 ELSE answers[u][i]
       ELSE answers'[u] = Append(answers[u], response'.saved_answer)
    /\ \A o \in Users \ {u} : answers'[o] = answers[o]

\* C15: there is at most one Answer per (user, question); an accepted
\* submission for a question the user already answered overwrites the payload,
\* the trait maps and the quote of that Answer and leaves the number of the
\* user's answers unchanged.
C15_OneAnswerPerUserAndQuestion ==
    /\ [](\A u \in Users : \A i, j \in 1..Len(answers[u]) :
             answers[u][i].question = answers[u][j].question => i = j)
    /\ [][(response'.op = "answer_and_next" /\ response'.status = 200)
            => Upserted(response'.user, response'.request.question)]_vars

\* C15 witness: answer-and-next has been accepted for the question of the older
\* of a user's two answers (it was overwritten where it is: a new row would be
\* the newer one), while another user has an answer of their own, stored by a
\* plain POST, to the same question
C15_Witness ==
    /\ response.op = "answer_and_next" /\ response.status = 200
    /\ Len(answers[response.user]) = 2
    /\ answers[response.user][1] = response.saved_answer
    /\ "fear" \in DOMAIN response.saved_answer.negative_values
    /\ \E o \in Users \ {response.user} :
          /\ HasAnswer(answers[o], response.saved_answer.question)
          /\ ~self_analysis[o].exists

\* C17: the only operation of a client that creates, changes or deletes an
\* Answer is answer-and-next (the administrator's operations aside).
C17_OnlySubmitWritesAnswers ==
    [][answers' # answers => response'.op \in {"answer_and_next"} \cup AdminOps]_vars

\* ------------------------------------------------------------------ reading the aggregate
\* One user on ProfileQuestions free-text questions: the user answers, deletes
\* answers, reads the aggregate (me, overview), the next question and the
\* progress, and asks for a recalculation; the administrator edits the
\* SelfAnalysis by hand or recalculates it.
ProfileUsers == {1}

InitProfile ==
    /\ questions = [q \in 1..ProfileQuestions |->
                      Question("text", None, NullCategory, FALSE, TRUE, 0, FALSE)]
    /\ options = << >>
    /\ EmptyTables

\* what the administrator types into the form of a SelfAnalysis
AdminSelfAnalysis == SelfAnalysisRow("grit" :> 5000, EmptyMap, Str(5, 0, 12, 0))

NextProfile ==
    \/ \E u \in ProfileUsers, q \in QIds, out \in AggOutputs :
          AnswerAndNext(u, Request(q, Payload("text_obj", GoodText, {}), EmptyMap, EmptyMap,
                                   EmptyStr), Env(TRUE, "model_ok", out))
    \/ \E u \in ProfileUsers, q \in QIds : Destroy(u, q)
    \/ \E u \in ProfileUsers : Me(u)
    \/ \E u \in ProfileUsers : Overview(u)
    \/ \E u \in ProfileUsers : Next_(u)
    \/ \E u \in ProfileUsers : Progress(u)
    \/ \E u \in ProfileUsers : Recalc(u)
    \/ \E u \in ProfileUsers : SaveSelfAnalysis(u, AdminSelfAnalysis)
    \/ \E selected \in SUBSET ProfileUsers : RecalcSelected(selected)

SpecProfile == InitProfile /\ [][NextProfile]_vars

\* the SelfAnalysis of user u is written by this step in one of the ways the
\* client-facing surface has: a read (me, overview) of u that finds no row
\* creates an empty one; a recalculation (the recalc endpoint, an accepted
\* answer-and-next) of u stores the aggregate of u's answers
WrittenByClient(u) ==
    \/ /\ response'.op \in {"me", "overview"} /\ response'.user = u
       /\ ~self_analysis[u].exists
       /\ self_analysis'[u] = SelfAnalysisRow(EmptyMap, EmptyMap, EmptyStr)
    \/ /\ response'.op \in {"recalc", "answer_and_next"} /\ response'.user = u
       /\ self_analysis'[u] = RecalcFromAnswers(AnswersAll(answers'[u]))

\* C16: a user has one SelfAnalysis (the table is keyed by the user); no
\* operation of a client writes its trait maps or quote except a
\* recalculation: me, overview, next and progress leave it as it is, apart
\* from me and overview creating an empty row when there is none.
C16_OnlyRecalculateWrites ==
    [][\A u \in Users :
          self_analysis'[u] # self_analysis[u] =>
              response'.op \in AdminOps \/ WrittenByClient(u)]_vars

\* C16 witness: me has been served while the stored aggregate, which has
\* scores, is not the aggregate of the stored answers: the read left it alone
C16_Witness ==
    /\ response.op = "me"
    /\ self_analysis[response.user].exists
    /\ DOMAIN self_analysis[response.user].combined_positives # {}
    /\ response.self_analysis = self_analysis[response.user]
    /\ self_analysis[response.user] # RecalcFromAnswers(AnswersAll(answers[response.user]))

\* ------------------------------------------------------------------ inactive questions
\* the active questions, those among them the user of the response has
\* answered, and the key of a question's category in by_category
Active == {q \in QIds : questions[q].is_active}
ActiveAnswered == {q \in Active : HasAnswer(answers[response.user], q)}
Bucket(q) == IF questions[q].category = NullCategory THEN "" ELSE questions[q].category

\* C18: inactive questions are left out everywhere: the next question is never
\* an inactive one, total counts the active questions only, and an answer to a
\* question that is inactive (or became so) counts neither in answered nor in
\* a bucket of by_category.
C18_InactiveExcluded ==
    (response.op \in {"next", "progress", "answer_and_next"} /\ response.status = 200) =>
        LET p == response.progress IN
        /\ response.next_question # None => response.next_question \in Active
        /\ p.total = Cardinality(Active)
        /\ p.answered = Cardinality(ActiveAnswered)
        /\ DOMAIN p.by_category = {Bucket(q) : q \in Active}
        /\ \A c \in DOMAIN p.by_category :
              /\ p.by_category[c].total = Cardinality({q \in Active : Bucket(q) = c})
              /\ p.by_category[c].answered = Cardinality({q \in ActiveAnswered : Bucket(q) = c})

\* C18 witness: a progress report for a user who has answers to active
\* questions and answers to questions that are now inactive
C18_Witness ==
    /\ response.op = "progress" /\ response.status = 200
    /\ response.progress.answered > 0
    /\ response.progress.answered < Len(answers[response.user])
    /\ response.progress.total < Cardinality(QIds)

\* ------------------------------------------------------------------ after an accepted answer
\* C19: when an accepted answer-and-next has been served, a SelfAnalysis of the
\* user exists and is the aggregate of all the user's stored answers, the one
\* just written among them; the next question and the progress returned are
\* those after the write: the next question is not one the user has answered,
\* so never the question just answered, and progress counts the new answer.
C19_AggregateAndNextAfterWrite ==
    (response.op = "answer_and_next" /\ response.status = 200) =>
        LET rows == answers[response.user]
            sa   == self_analysis[response.user]
        IN
        /\ \E i \in 1..Len(rows) : rows[i] = response.saved_answer
        /\ sa.exists
        /\ sa = RecalcFromAnswers(AnswersAll(rows))
        /\ response.next_question # response.saved_answer.question
        /\ response.next_question \notin AnsweredIdsForUser(rows)
        /\ response.complete <=> (response.next_question = None)
        /\ response.progress.answered = Cardinality(ActiveAnswered)

\* C19 witness: a second answer has been accepted, the aggregate has scores
\* and a quote, and a further question is offered
C19_Witness ==
    /\ response.op = "answer_and_next" /\ response.status = 200
    /\ Len(answers[response.user]) = 2
    /\ answers[response.user][2] = response.saved_answer
    /\ DOMAIN self_analysis[response.user].combined_positives # {}
    /\ Truthy(self_analysis[response.user].quote)
    /\ response.next_question # None
    /\ response.progress.answered = 2

\* ------------------------------------------------------------------ the branches of the pipeline
\* an answer-and-next was served for a choice question and was not refused for
\* its structure
ChoiceSubmitted ==
    /\ response.op = "answer_and_next" /\ response.error # "structural"
    /\ response.request.question \in QIds
    /\ IsChoice(response.request.question)

\* C21: a submission for a SINGLE_CHOICE or MULTI_CHOICE question runs neither
\* external capability: it is never refused for completeness, the validator
\* says ok without a call and the scorer gives empty maps and an empty quote
\* without a call, whatever the capabilities would do (fail, refuse, answer,
\* or have no key).
C21_ChoiceCallsNoCapability ==
    ChoiceSubmitted =>
        LET q == response.request.question
            a == SerializerValidate(q, response.request.answer).answer
        IN
        /\ response.error # "completeness"
        /\ ~response.agent.called /\ ~response.agent.raised
        /\ ~response.analysis_called
        /\ \A env \in PipelineEnvs :
              /\ ValidateWithAgent(q, a, env) = Feedback(FALSE, TRUE, "", FALSE)
              /\ AnalyzeWithAgent(q, a, env) = Analysis(FALSE, EmptyMap, EmptyMap, EmptyStr, FALSE)

\* C21 witness: an answer to a single-choice question has been accepted and
\* stored while free-text answers of the same user are stored too
C21_Witness ==
    /\ ChoiceSubmitted /\ response.status = 200
    /\ questions[response.request.question].type = "mcq"
    /\ Len(answers[response.user]) = PipelineQuestions
    /\ \E i \in 1..Len(answers[response.user]) :
          answers[response.user][i] = response.saved_answer

\* C22: an accepted submission for a SINGLE_CHOICE or MULTI_CHOICE question is
\* stored with empty trait maps, whatever the request holds.
C22_ChoiceStoredWithEmptyMaps ==
    (ChoiceSubmitted /\ response.status = 200) =>
        /\ response.saved_answer.positive_values = EmptyMap
        /\ response.saved_answer.negative_values = EmptyMap
        /\ \A i \in 1..Len(answers[response.user]) :
              answers[response.user][i].question = response.request.question
                  => /\ answers[response.user][i].positive_values = EmptyMap
                     /\ answers[response.user][i].negative_values = EmptyMap

\* ------------------------------------------------------------------ required questions
\* Questions of the three types in turn (free-text, single-choice,
\* multiple-choice, ...), question q with the one option q; all of them are
\* required or none is.  A client sends nothing, "", {}, [], {text: ""} or the
\* well-formed answer of the question's type; the capabilities answer, or have no key.
RequiredUsers == {1}

InitRequired ==
    /\ \E required \in BOOLEAN :
          questions = [q \in 1..RequiredQuestions |->
                         Question(IF q % 3 = 1 THEN "text" ELSE IF q % 3 = 2 THEN "mcq"
                                  ELSE "checkbox",
                                  None, NullCategory, required, TRUE, 0, FALSE)]
    /\ options = [o \in 1..RequiredQuestions |-> o]
    /\ EmptyTables

RequiredPayloads(q) ==
    {MissingPayload, Payload("empty_str", NoText, {}), Payload("empty_obj", NoText, {}),
     Payload("list", NoText, {}), Payload("text_obj", NoText, {}),
     IF questions[q].type = "text" THEN Payload("text_obj", GoodText, {})
     ELSE IF questions[q].type = "mcq" THEN Payload("option_obj", NoText, {q})
     ELSE Payload("options_obj", NoText, {q})}

RequiredEnvs ==
    {QuietEnv, Env(FALSE, "model_ok", AgentOutput("error", EmptyMap, EmptyMap, EmptyStr))}

NextRequired ==
    \/ \E u \in RequiredUsers, q \in QIds, env \in RequiredEnvs :
          \E payload \in RequiredPayloads(q) :
              AnswerAndNext(u, Request(q, payload, EmptyMap, EmptyMap, EmptyStr), env)
    \/ \E u \in RequiredUsers : Next_(u)

SpecRequired == InitRequired /\ [][NextRequired]_vars

\* the payloads that are empty or missing: absent or null, "", {}, []
EmptyOrMissing(payload) ==
    \/ payload.shape \in {"missing", "empty_str", "empty_obj"}
    \/ payload.shape = "list" /\ payload.ids = {}

\* C23: a submission with an empty or missing payload for a required question,
\* of whatever type, is refused for its structure: no capability has been
\* called, and the step that answers so writes nothing.
C23_RequiredNeedsPayload ==
    /\ [](( /\ response.op = "answer_and_next"
            /\ response.request.question \in QIds
            /\ questions[response.request.question].required
            /\ EmptyOrMissing(response.request.answer) )
          => /\ response.status = 400 /\ response.error = "structural"
             /\ ~response.agent.called /\ ~response.agent.raised
             /\ ~response.analysis_called
             /\ response.users = {} /\ response.saved_answer = NoRow)
    /\ [][(response'.op = "answer_and_next" /\ response'.error = "structural")
            => UNCHANGED <<questions, options, answers, self_analysis>>]_vars

\* C23 witness: a missing payload for a required multiple-choice question is
\* refused while answers to the other questions are stored
C23_Witness ==
    /\ response.op = "answer_and_next" /\ response.error = "structural"
    /\ response.request.question \in QIds
    /\ questions[response.request.question].type = "checkbox"
    /\ questions[response.request.question].required
    /\ response.request.answer = MissingPayload
    /\ Len(answers[response.user]) = RequiredQuestions - 1
    /\ self_analysis[response.user].exists

\* an answer-and-next was served for a free-text question
TextServed ==
    /\ response.op = "answer_and_next"
    /\ response.request.question \in QIds
    /\ questions[response.request.question].type = "text"

\* the row the response shows is a row of the requesting user
SavedIsStored ==
    \E i \in 1..Len(answers[response.user]) : answers[response.user][i] = response.saved_answer

\* the stored aggregate of the requesting user is the one of the user's stored
\* answers, and the response was built after it
Aggregated ==
    /\ self_analysis[response.user].exists
    /\ self_analysis[response.user] = RecalcFromAnswers(AnswersAll(answers[response.user]))
    /\ response.self_analysis = self_analysis[response.user]
    /\ response.progress = ProgressSnapshot(answers[response.user])

C25_ValidatorErrorFailsOpen ==
    (TextServed /\ response.agent.raised) =>
        /\ response.status = 200
        /\ SavedIsStored
        /\ Aggregated

\* C26: when the scorer fails after the completeness check accepted a TEXT
\* answer, the answer is stored with empty trait maps and an empty quote, the
\* aggregate is recalculated, and the submission is accepted.
C26_ScorerFailureStoresEmpty ==
    (TextServed /\ response.analysis_raised) =>
        /\ ~response.agent.raised /\ response.agent.is_answer_ok
        /\ response.status = 200
        /\ response.saved_answer.question = response.request.question
        /\ response.saved_answer.positive_values = EmptyMap
        /\ response.saved_answer.negative_values = EmptyMap
        /\ response.saved_answer.quote = EmptyStr
        /\ SavedIsStored
        /\ Aggregated

\* C26 witness: the scorer failed on the second answer of a user whose first
\* answer has scores; the new row is empty and the aggregate is that of both
C26_Witness ==
    /\ TextServed /\ response.analysis_raised /\ response.status = 200
    /\ Len(answers[response.user]) = 2
    /\ answers[response.user][2] = response.saved_answer
    /\ DOMAIN answers[response.user][1].positive_values # {}
    /\ DOMAIN self_analysis[response.user].combined_positives # {}

\* C28: the trait maps and the quote stored with an accepted TEXT answer are
\* those of the scorer (clamped) or empty; the positive_values and the quote
\* of the request (the trait "calm", the quote with tag 3) are never stored.
C28_TextStoresScorerOutput ==
    (TextServed /\ response.status = 200) =>
        /\ SavedIsStored
        /\ Clamped(response.saved_answer.positive_values)
        /\ Clamped(response.saved_answer.negative_values)
        /\ "calm" \notin DOMAIN response.saved_answer.positive_values
        /\ response.saved_answer.quote.tag # 3

\* C27: validate_with_agent says ok for a TEXT answer only when the local
\* checks passed and the capability itself answered ok; when the capability
\* fails, is not configured, or returns something unrecognisable, the outcome
\* is an error and never ok.
C27_OkOnlyWhenCapabilitySaysOk ==
    TextSubmitted =>
        \A env \in TextEnvs :
            LET fb == Resubmitted(env) IN
            /\ (fb.is_answer_ok /\ ~fb.raised) =>
                  /\ FirstFailing(response.request.question, response.request.answer.text) = ""
                  /\ env.key_set /\ env.validate \in {"model_ok", "dict_ok"}
            /\ (~env.key_set \/ env.validate \in {"error", "other"}) => ~fb.is_answer_ok

\* ------------------------------------------------------------------ locked questions
\* C30: a submission for a question that is inactive, or that has an ancestor
\* the user has not answered, is not stored: every answer-and-next that is
\* accepted is for an active question whose ancestors the user had all
\* answered, so that the answered questions stay closed under ancestors.
C30_OnlyUnlockedStored ==
    [][(response'.op = "answer_and_next" /\ response'.status = 200) =>
          /\ questions[response'.request.question].is_active
          /\ AncestorsOf(response'.request.question)
                \subseteq AnsweredIdsForUser(answers[response'.user])]_vars

\* ------------------------------------------------------------------ concurrent submissions
\* RaceRequests requests of one user to answer-and-next, request r for the
\* free-text question r, served at the same time: the steps of the handler
\* after the first write are separate statements on the database, with no
\* transaction and no lock around them, so the steps of one request interleave
\* with those of another.  pc: "new", "scored" (validated and scored, obj built),
\* "upserted", "read" (the answers read and the aggregate computed into sa),
\* "saved", "done".
RaceUsers == {1}

InFlight(pc, obj, sa) == [pc |-> pc, obj |-> obj, sa |-> sa]

InitRace ==
    /\ questions = [q \in 1..RaceRequests |->
                      Question("text", None, NullCategory, FALSE, TRUE, 0, FALSE)]
    /\ options = << >>
    /\ answers = [u \in Users |-> << >>]
    /\ self_analysis = [u \in Users |-> NoSelfAnalysis]
    /\ response = NoResponse
    /\ inflight = [r \in 1..RaceRequests |-> InFlight("new", NoRow, NoSelfAnalysis)]

\* answer_and_next up to the row to write: the serializer, the validator, the
\* scorer, the computed fields
ReceiveRequest(r, u, env) ==
    LET ser      == SerializerIsValid(Request(r, Payload("text_obj", GoodText, {}), EmptyMap,
                                              EmptyMap, EmptyStr))
        feedback == ValidateWithAgent(r, ser.answer, env)
        analysis == AnalyzeWithAgent(r, ser.answer, env)
        computed == Computed(ser, ~feedback.raised, analysis)
    IN
    /\ inflight[r].pc = "new"
    /\ ser.ok /\ ~Refuses(TRUE, feedback)
    /\ inflight' = [inflight EXCEPT
                      ![r] = InFlight("scored",
                                      AnswerRow(r, ser.answer, computed.positive,
                                                computed.negative, computed.quote),
                                      NoSelfAnalysis)]
    /\ UNCHANGED <<questions, options, answers, self_analysis, response>>

\* Answer.objects.update_or_create
UpsertAnswer(r, u) ==
    /\ inflight[r].pc = "scored"
    /\ answers' = [answers EXCEPT ![u] = UpdateOrCreate(answers[u], inflight[r].obj)]
    /\ inflight' = [inflight EXCEPT ![r].pc = "upserted"]
    /\ UNCHANGED <<questions, options, self_analysis, response>>

\* SelfAnalysis.objects.get_or_create, then recalc_from_answers up to its
\* save: the query self.user.answers.all() and the loops over its rows
ReadAnswers(r, u) ==
    /\ inflight[r].pc = "upserted"
    /\ self_analysis' = [self_analysis EXCEPT ![u] = GetOrCreate(self_analysis[u])]
    /\ inflight' = [inflight EXCEPT
                      ![r].pc = "read",
                      ![r].sa = RecalcFromAnswers(AnswersAll(answers[u]))]
    /\ UNCHANGED <<questions, options, answers, response>>

\* recalc_from_answers: self.save(update_fields=[...])
SaveAggregate(r, u) ==
    /\ inflight[r].pc = "read"
    /\ self_analysis' = [self_analysis EXCEPT ![u] = inflight[r].sa]
    /\ inflight' = [inflight EXCEPT ![r].pc = "saved"]
    /\ UNCHANGED <<questions, options, answers, response>>

\* answer_and_next after the recalculation: next_question_for_user,
\* progress_snapshot and the response
Respond(r, u) ==
    /\ inflight[r].pc = "saved"
    /\ \E q_next \in {NextQuestionForUser(answers[u])} :
          response' = [Response("answer_and_next", u, {u}, 200, "") EXCEPT
                         !.request = Sent(r, inflight[r].obj.answer),
                         !.saved_answer = inflight[r].obj,
                         !.next_question = q_next,
                         !.complete = (q_next = None),
                         !.progress = ProgressSnapshot(answers[u]),
                         !.self_analysis = inflight[r].sa]
    /\ inflight' = [inflight EXCEPT ![r].pc = "done"]
    /\ UNCHANGED <<questions, options, answers, self_analysis>>

NextRace ==
    \/ \E r \in 1..RaceRequests, u \in RaceUsers, out \in AggOutputs :
          ReceiveRequest(r, u, Env(TRUE, "model_ok", out))
    \/ \E r \in 1..RaceRequests, u \in RaceUsers : UpsertAnswer(r, u)
    \/ \E r \in 1..RaceRequests, u \in RaceUsers : ReadAnswers(r, u)
    \/ \E r \in 1..RaceRequests, u \in RaceUsers : SaveAggregate(r, u)
    \/ \E r \in 1..RaceRequests, u \in RaceUsers : Respond(r, u)

SpecRace == InitRace /\ [][NextRace]_vars

\* every request in flight has been answered
AllDone == DOMAIN inflight # {} /\ \A r \in DOMAIN inflight : inflight[r].pc = "done"

\* C29: when concurrent answer-and-next requests of one user for different
\* questions have all completed, however their steps interleaved, the stored
\* aggregate is the aggregate of all the user's stored answers, the new ones
\* included.
C29_NoLostAggregateUpdate ==
    AllDone =>
        \A u \in RaceUsers :
            /\ Len(answers[u]) = RaceRequests
            /\ self_analysis[u] = RecalcFromAnswers(AnswersAll(answers[u]))

====
